---- MODULE Spec2Model ----
(***************************************************************************)
(* Contract-Intelligence-Parser: the scoring engine (scoring.py), the      *)
(* extractor (direct_gemini_extractor.py), the analyzer's response parser  *)
(* (gemini_analyzer.py) and the contract endpoints (main.py)               *)
(*                                                                         *)
(* The machines share the variable list; each specification moves one of   *)
(* them and leaves the others at rest:                                     *)
(*   Spec         ScoringEngine.calculate_score / get_score_breakdown      *)
(*   SpecMerge    DirectGeminiExtractor._combine_analyses                  *)
(*   SpecChunk    DirectGeminiExtractor._split_text_into_chunks            *)
(*   SpecParse    GeminiContractAnalyzer.analyze_contract                  *)
(*   SpecApi      upload, status, delete and the process_contract task     *)
(*   SpecExtract  DirectGeminiExtractor.extract_contract_data, scored      *)
(***************************************************************************)
EXTENDS Integers, Sequences, FiniteSets, TLC

VARIABLES
    \* ---- scoring.py ----
    parsed_data,    \* the mapping handed to the ScoringEngine
    weights,        \* ScoringEngine.weights (set in __init__)
    scores,         \* calculate_score's local dict of category scores
    calc_ret,       \* what the last calculate_score call returned
    first_ret,      \* what the first calculate_score call returned
    calc_calls,     \* number of calculate_score calls made
    bd_ret,         \* what the last get_score_breakdown call returned
    bd_calls,       \* number of get_score_breakdown calls made
    \* ---- direct_gemini_extractor.py: _combine_analyses ----
    analyses,       \* the ordered list of analyses handed to _combine_analyses
    combined,       \* the dict _combine_analyses builds and returns
    merge_pc,       \* "ready" | "done" | "raised"
    \* ---- direct_gemini_extractor.py: _split_text_into_chunks ----
    text,           \* the text: its length and the indices of its '.', '!', '?'
    chunk_size,     \* self.chunk_size
    overlap,        \* self.overlap
    start,          \* the loop's start index
    chunks,         \* the list of chunks, each the slice text[lo:hi] it holds
    chunk_pc,       \* "loop" | "done" | "raised" | "diverged"
    \* ---- gemini_analyzer.py, enhanced_parser.py, parser.py ----
    file,           \* the PDF at file_path: what each text extractor makes of it
    enabled,        \* GeminiContractAnalyzer.enabled (set in __init__)
    response,       \* what self.model.generate_content does on this call
    analysis,       \* what analyze_contract returned
    analyze_pc,     \* "idle" | "ready" | "returned" | "raised"
    parse_ret,      \* the ContractData ContractParser.parse_contract returned
    parse_pc,       \* "idle" | "ready" | "returned" | "raised"
    \* ---- main.py ----
    db,             \* app.mongodb.contracts: the record of the contract id
    disk,           \* whether the uploaded file is at its file_path
    task_pc,        \* where the process_contract task stands
    contract,       \* process_contract's local `contract`
    err,            \* the exception process_contract's except branch handles
    attempts,       \* process_contract calls made for the contract id
    http,           \* the last HTTP request and the response it got
    del_pc,         \* where a delete_contract request stands
    \* ---- direct_gemini_extractor.py: extract_contract_data ----
    chunk_outcomes, \* per chunk, what analyze_contract does when called on it
    direct,         \* TRUE when the text is short enough for _process_direct_text
    chunk_i,        \* chunks the loop of _process_long_text has gone through
    extract_pc,     \* "idle" | "ready" | "chunks" | "returned"
    extract_ret     \* the ContractData extract_contract_data returned

scoreVars == <<parsed_data, weights, scores, calc_ret, first_ret, calc_calls, bd_ret, bd_calls>>
mergeVars == <<analyses, combined, merge_pc>>
chunkVars == <<text, chunk_size, overlap, start, chunks, chunk_pc>>
parseVars == <<file, enabled, response, analysis, analyze_pc, parse_ret, parse_pc>>
apiVars == <<db, disk, task_pc, contract, err, attempts, http, del_pc>>
extractVars == <<chunk_outcomes, direct, chunk_i, extract_pc, extract_ret>>
vars == <<parsed_data, weights, scores, calc_ret, first_ret, calc_calls, bd_ret, bd_calls,
          analyses, combined, merge_pc,
          text, chunk_size, overlap, start, chunks, chunk_pc,
          file, enabled, response, analysis, analyze_pc, parse_ret, parse_pc,
          db, disk, task_pc, contract, err, attempts, http, del_pc,
          chunk_outcomes, direct, chunk_i, extract_pc, extract_ret>>

\* what an operation of one component leaves alone: the other components
notScoreVars == <<mergeVars, chunkVars, parseVars, apiVars, extractVars>>
notMergeVars == <<scoreVars, chunkVars, parseVars, apiVars, extractVars>>
notChunkVars == <<scoreVars, mergeVars, parseVars, apiVars, extractVars>>
notParseVars == <<scoreVars, mergeVars, chunkVars, apiVars, extractVars>>
notApiVars   == <<scoreVars, mergeVars, chunkVars, parseVars, extractVars>>

Min(a, b) == IF a <= b THEN a ELSE b
Max(a, b) == IF a >= b THEN a ELSE b
Range(s) == {s[i] : i \in DOMAIN s}

(***************************************************************************)
(* Python values, as far as the scorer looks at them.  A scalar field of a *)
(* mapping is an absent key, None, a falsy value (0, 0.0, "") or a truthy  *)
(* value; dict.get(key) is None for an absent key, and `if x` is truth.    *)
(***************************************************************************)
MISSING == "missing"
NONE    == "none"
FALSY   == "falsy"
VAL     == "val"
Scalars == {MISSING, NONE, FALSY, VAL}
Truthy(v) == v = VAL

\* A category value: an absent key, None, the empty dict {}, a non-empty dict, or
\* a truthy value of the wrong shape (a string, a number: it has no .get).
DICT  == "dict"
EMPTY == "empty"
BAD   == "bad"
LIST  == "list"
CatTruthy(c) == c.tag \in {DICT, BAD}

\* The marker a scorer's value takes when the Python call raises.
RAISE == -1

(***************************************************************************)
(* scoring.py: ScoringEngine                                               *)
(***************************************************************************)

\* ScoringEngine.__init__: self.weights
InitWeights ==
    [financial_completeness |-> 30, party_identification |-> 25,
     payment_terms_clarity |-> 20, sla_definition |-> 15, contact_information |-> 10]

Components ==
    <<"financial_completeness", "party_identification", "payment_terms_clarity",
      "sla_definition", "contact_information">>

\* for item in line_items: if item.get("description") and item.get("unit_price"): score += 2
RECURSIVE LineItemBonus(_)
LineItemBonus(items) ==
    IF items = <<>> THEN 0
    ELSE (IF Truthy(Head(items).description) /\ Truthy(Head(items).unit_price) THEN 2 ELSE 0)
         + LineItemBonus(Tail(items))

\* The line-item block of _calculate_financial_score: score is the running total
\* (the points for total_contract_value are already in it when the block runs), and
\* `score = min(score, 30)` caps the running total, not the line-item part.
LineItemsBlock(score, line_items) ==
    IF line_items # <<>> THEN Min(score + 30 + LineItemBonus(line_items), 30) ELSE score

_calculate_financial_score(pd) ==
    LET fd == pd.financial_details
        s0 == IF Truthy(fd.total_contract_value) THEN 40 ELSE 0
        s1 == LineItemsBlock(s0, fd.line_items)
        s2 == s1 + (IF Truthy(fd.currency) THEN 10 ELSE 0)
        s3 == s2 + (IF Truthy(fd.tax_amount) THEN 10 ELSE 0)
        s4 == s3 + (IF Truthy(fd.additional_fees) THEN 10 ELSE 0)
    IN  IF ~CatTruthy(fd) THEN 0
        ELSE IF fd.tag = BAD THEN RAISE
        ELSE Min(s4, 100)

\* The body of the loop over parties[:3]: one party's capped points.
PartyPoints(party) ==
    LET party_score ==
              (IF Truthy(party.name) THEN 20 ELSE 0)
            + (IF Truthy(party.role) THEN 15 ELSE 0)
            + (IF Truthy(party.legal_entity) THEN 15 ELSE 0)
            + (IF Truthy(party.email) THEN 10 ELSE 0)
            + (IF Truthy(party.phone) THEN 10 ELSE 0)
            + (IF Truthy(party.address) THEN 10 ELSE 0)
            + (IF Truthy(party.registration_number) THEN 10 ELSE 0)
    IN  Min(party_score, 80)

RECURSIVE SumPartyPoints(_)
SumPartyPoints(ps) ==
    IF ps = <<>> THEN 0 ELSE PartyPoints(Head(ps)) + SumPartyPoints(Tail(ps))

\* parties[:3]
FirstThree(ps) == SubSeq(ps, 1, Min(3, Len(ps)))

_calculate_party_score_AllParties(pd) ==
    LET parties == pd.parties
    IN  IF parties.tag \in {MISSING, NONE} \/ (parties.tag = LIST /\ parties.items = <<>>) THEN 0
        ELSE IF parties.tag = BAD THEN RAISE
        ELSE Min(20 + SumPartyPoints(parties.items), 100)

_calculate_party_score_NoTotalCap(pd) ==
    LET parties == pd.parties
    IN  IF parties.tag \in {MISSING, NONE} \/ (parties.tag = LIST /\ parties.items = <<>>) THEN 0
        ELSE IF parties.tag = BAD THEN RAISE
        ELSE 20 + SumPartyPoints(FirstThree(parties.items))

_calculate_party_score(pd) ==
    LET parties == pd.parties   \* parsed_data.get("parties", [])
    IN  IF parties.tag \in {MISSING, NONE} \/ (parties.tag = LIST /\ parties.items = <<>>) THEN 0
        ELSE IF parties.tag = BAD THEN RAISE
        ELSE Min(20 + SumPartyPoints(FirstThree(parties.items)), 100)

_calculate_payment_score(pd) ==
    LET pt == pd.payment_terms
        score ==
              (IF Truthy(pt.payment_terms) THEN 40 ELSE 0)
            + (IF Truthy(pt.payment_schedule) THEN 25 ELSE 0)
            + (IF pt.due_dates # <<>> THEN 20 ELSE 0)
            + (IF pt.payment_methods # <<>> THEN 10 ELSE 0)
            + (IF Truthy(pt.banking_details) THEN 5 ELSE 0)
    IN  IF ~CatTruthy(pt) THEN 0
        ELSE IF pt.tag = BAD THEN RAISE
        ELSE Min(score, 100)

_calculate_sla_score(pd) ==
    LET sla == pd.sla
        score ==
              (IF sla.performance_metrics # <<>> THEN 30 ELSE 0)
            + (IF sla.penalty_clauses # <<>> THEN 25 ELSE 0)
            + (IF Truthy(sla.support_terms) THEN 25 ELSE 0)
            + (IF Truthy(sla.maintenance_terms) THEN 20 ELSE 0)
    IN  IF ~CatTruthy(sla) THEN 0
        ELSE IF sla.tag = BAD THEN RAISE
        ELSE Min(score, 100)

\* for party in parties: if party.get("email") or party.get("phone"): contact_found = True
ContactFound(ps) ==
    \E i \in DOMAIN ps : Truthy(ps[i].email) \/ Truthy(ps[i].phone)

\* the party part counted once per party that has contact details
_calculate_contact_score_PerParty(pd) ==
    LET account_info == pd.account_info
        parties == pd.parties
        s0 == IF account_info.tag = DICT
              THEN   (IF Truthy(account_info.contact_email) THEN 25 ELSE 0)
                   + (IF Truthy(account_info.contact_phone) THEN 15 ELSE 0)
                   + (IF Truthy(account_info.technical_support_contact) THEN 10 ELSE 0)
              ELSE 0
        s1 == s0 + (IF parties.tag = LIST
                    THEN 50 * Cardinality({i \in DOMAIN parties.items :
                                             ContactFound(<<parties.items[i]>>)})
                    ELSE 0)
    IN  IF account_info.tag = BAD \/ parties.tag \in {NONE, BAD} THEN RAISE
        ELSE Min(s1, 100)

\* `for party in parties` with parties None (key present, value None) is a TypeError;
\* with the key absent, .get's default [] is iterated.
_calculate_contact_score(pd) ==
    LET account_info == pd.account_info
        parties == pd.parties
        s0 == IF account_info.tag = DICT
              THEN   (IF Truthy(account_info.contact_email) THEN 25 ELSE 0)
                   + (IF Truthy(account_info.contact_phone) THEN 15 ELSE 0)
                   + (IF Truthy(account_info.technical_support_contact) THEN 10 ELSE 0)
              ELSE 0
        s1 == s0 + (IF parties.tag = LIST /\ ContactFound(parties.items) THEN 50 ELSE 0)
    IN  IF account_info.tag = BAD \/ parties.tag \in {NONE, BAD} THEN RAISE
        ELSE Min(s1, 100)

\* "Party {i+1}: Missing name" / "Party {i+1}: Missing role", for parties[i-1 ..]
RECURSIVE PartyGaps(_, _)
PartyGaps(ps, i) ==
    IF i > Len(ps) THEN <<>>
    ELSE (IF ~Truthy(ps[i].name) THEN <<"Party " \o ToString(i) \o ": Missing name">> ELSE <<>>)
         \o (IF ~Truthy(ps[i].role) THEN <<"Party " \o ToString(i) \o ": Missing role">> ELSE <<>>)
         \o PartyGaps(ps, i + 1)

\* _identify_gaps raises where it calls .get on a value that has none.
IdentifyGapsRaises(pd) ==
    \/ pd.parties.tag = BAD
    \/ pd.financial_details.tag = BAD
    \/ pd.payment_terms.tag = BAD
    \/ pd.account_info.tag = BAD
    \/ pd.revenue_classification.tag = BAD
    \/ pd.sla.tag = BAD

_identify_gaps_NoEndDate(pd) ==
       (IF pd.parties.tag # LIST \/ pd.parties.items = <<>>
        THEN <<"No contract parties identified">>
        ELSE PartyGaps(pd.parties.items, 1))
    \o (IF ~CatTruthy(pd.financial_details)
        THEN <<"No financial details found">>
        ELSE (IF ~Truthy(pd.financial_details.total_contract_value)
              THEN <<"Missing total contract value">> ELSE <<>>)
             \o (IF pd.financial_details.line_items = <<>>
                 THEN <<"No line items found">> ELSE <<>>))
    \o (IF ~CatTruthy(pd.payment_terms)
        THEN <<"No payment terms found">>
        ELSE (IF ~Truthy(pd.payment_terms.payment_terms)
              THEN <<"Missing payment terms (Net 30, Net 60, etc.)">> ELSE <<>>))
    \o (IF ~CatTruthy(pd.account_info)
        THEN <<"No account information found">>
        ELSE (IF ~Truthy(pd.account_info.contact_email)
              THEN <<"Missing contact email">> ELSE <<>>))
    \o (IF ~CatTruthy(pd.revenue_classification)
        THEN <<"No revenue classification found">>
        ELSE (IF ~Truthy(pd.revenue_classification.payment_type)
              THEN <<"Missing payment type (recurring/one-time)">> ELSE <<>>))
    \o (IF ~CatTruthy(pd.sla)
        THEN <<"No SLA information found">>
        ELSE (IF pd.sla.performance_metrics = <<>>
              THEN <<"No performance metrics defined">> ELSE <<>>)
             \o (IF ~Truthy(pd.sla.support_terms)
                 THEN <<"No support terms defined">> ELSE <<>>))
    \o (IF ~Truthy(pd.contract_start_date) THEN <<"Missing contract start date">> ELSE <<>>)

_identify_gaps(pd) ==
       (IF pd.parties.tag # LIST \/ pd.parties.items = <<>>
        THEN <<"No contract parties identified">>
        ELSE PartyGaps(pd.parties.items, 1))
    \o (IF ~CatTruthy(pd.financial_details)
        THEN <<"No financial details found">>
        ELSE (IF ~Truthy(pd.financial_details.total_contract_value)
              THEN <<"Missing total contract value">> ELSE <<>>)
             \o (IF pd.financial_details.line_items = <<>>
                 THEN <<"No line items found">> ELSE <<>>))
    \o (IF ~CatTruthy(pd.payment_terms)
        THEN <<"No payment terms found">>
        ELSE (IF ~Truthy(pd.payment_terms.payment_terms)
              THEN <<"Missing payment terms (Net 30, Net 60, etc.)">> ELSE <<>>))
    \o (IF ~CatTruthy(pd.account_info)
        THEN <<"No account information found">>
        ELSE (IF ~Truthy(pd.account_info.contact_email)
              THEN <<"Missing contact email">> ELSE <<>>))
    \o (IF ~CatTruthy(pd.revenue_classification)
        THEN <<"No revenue classification found">>
        ELSE (IF ~Truthy(pd.revenue_classification.payment_type)
              THEN <<"Missing payment type (recurring/one-time)">> ELSE <<>>))
    \o (IF ~CatTruthy(pd.sla)
        THEN <<"No SLA information found">>
        ELSE (IF pd.sla.performance_metrics = <<>>
              THEN <<"No performance metrics defined">> ELSE <<>>)
             \o (IF ~Truthy(pd.sla.support_terms)
                 THEN <<"No support terms defined">> ELSE <<>>))
    \o (IF ~Truthy(pd.contract_start_date) THEN <<"Missing contract start date">> ELSE <<>>)
    \o (IF ~Truthy(pd.contract_end_date) THEN <<"Missing contract end date">> ELSE <<>>)

(***************************************************************************)
(* The mappings the engine is called with.  models.py gives their shape    *)
(* (ContractData.dict(), main.py line 328); a direct caller may also leave *)
(* keys out, pass None, or pass a value of the wrong shape.                *)
(***************************************************************************)
MaxParties   == 4    \* longest parties list
MaxLineItems == 2    \* longest line_items list
MaxCalls     == 2    \* calls of calculate_score on the input

PartyFields ==
    {"name", "role", "legal_entity", "email", "phone", "address", "registration_number"}

\* A party dict whose keys in S hold truthy values and whose other keys hold v.
PartyOf(S, v) ==
    [name                |-> IF "name" \in S THEN VAL ELSE v,
     role                |-> IF "role" \in S THEN VAL ELSE v,
     legal_entity        |-> IF "legal_entity" \in S THEN VAL ELSE v,
     email               |-> IF "email" \in S THEN VAL ELSE v,
     phone               |-> IF "phone" \in S THEN VAL ELSE v,
     address             |-> IF "address" \in S THEN VAL ELSE v,
     registration_number |-> IF "registration_number" \in S THEN VAL ELSE v]

FullParty == PartyOf(PartyFields, MISSING)
\* the parties lists are built over a few kinds of party, a single party over all
PartyKinds ==
    {FullParty, PartyOf({"name", "role"}, NONE), PartyOf({"email"}, MISSING)}

SeqsUpTo(S, n) == UNION {[1..k -> S] : k \in 0..n}

PartiesTag(t) == [tag |-> t, items |-> <<>>]
PartiesList(ps) == [tag |-> LIST, items |-> ps]
PartiesSet ==
    {PartiesTag(t) : t \in {MISSING, NONE, BAD}}
    \cup {PartiesList(<<PartyOf(S, v)>>) : S \in SUBSET PartyFields, v \in {MISSING, NONE, FALSY}}
    \cup {PartiesList(ps) : ps \in SeqsUpTo(PartyKinds, MaxParties)}

DetailedItem == [description |-> VAL, unit_price |-> VAL]
BareItem     == [description |-> VAL, unit_price |-> NONE]

FinTag(t) ==
    [tag |-> t, total_contract_value |-> MISSING, line_items |-> <<>>,
     currency |-> MISSING, tax_amount |-> MISSING, additional_fees |-> MISSING]
Fin(tcv, items, cur, tax, fees) ==
    [tag |-> DICT, total_contract_value |-> tcv, line_items |-> items,
     currency |-> cur, tax_amount |-> tax, additional_fees |-> fees]
FullFinancial == Fin(VAL, <<DetailedItem, DetailedItem>>, VAL, VAL, VAL)
FinancialSet ==
    {FinTag(t) : t \in {MISSING, NONE, EMPTY, BAD}}
    \cup {Fin(tcv, items, cur, tax, fees) :
            tcv \in Scalars, items \in SeqsUpTo({DetailedItem, BareItem}, MaxLineItems),
            cur \in {NONE, VAL}, tax \in {FALSY, VAL}, fees \in {NONE, VAL}}

PayTag(t) ==
    [tag |-> t, payment_terms |-> MISSING, payment_schedule |-> MISSING,
     due_dates |-> <<>>, payment_methods |-> <<>>, banking_details |-> MISSING]
Pay(terms, sched, due, methods, bank) ==
    [tag |-> DICT, payment_terms |-> terms, payment_schedule |-> sched,
     due_dates |-> due, payment_methods |-> methods, banking_details |-> bank]
FullPayment == Pay(VAL, VAL, <<"2024-01-31">>, <<"wire">>, VAL)
PaymentSet ==
    {PayTag(t) : t \in {MISSING, NONE, EMPTY, BAD}}
    \cup {Pay(terms, sched, due, methods, bank) :
            terms \in {NONE, FALSY, VAL}, sched \in {NONE, VAL},
            due \in {<<>>, <<"2024-01-31">>}, methods \in {<<>>, <<"wire">>},
            bank \in {NONE, VAL}}

SlaTag(t) ==
    [tag |-> t, performance_metrics |-> <<>>, penalty_clauses |-> <<>>,
     support_terms |-> MISSING, maintenance_terms |-> MISSING]
Sla(metrics, penalties, support, maint) ==
    [tag |-> DICT, performance_metrics |-> metrics, penalty_clauses |-> penalties,
     support_terms |-> support, maintenance_terms |-> maint]
FullSla == Sla(<<"99.9% uptime">>, <<"service credit">>, VAL, VAL)
SlaSet ==
    {SlaTag(t) : t \in {MISSING, NONE, EMPTY, BAD}}
    \cup {Sla(metrics, penalties, support, maint) :
            metrics \in {<<>>, <<"99.9% uptime">>}, penalties \in {<<>>, <<"service credit">>},
            support \in {NONE, FALSY, VAL}, maint \in {NONE, VAL}}

AccountTag(t) ==
    [tag |-> t, contact_email |-> MISSING, contact_phone |-> MISSING,
     technical_support_contact |-> MISSING]
Account(email, phone, tech) ==
    [tag |-> DICT, contact_email |-> email, contact_phone |-> phone,
     technical_support_contact |-> tech]
FullAccount == Account(VAL, VAL, VAL)
AccountSet ==
    {AccountTag(t) : t \in {MISSING, NONE, EMPTY, BAD}}
    \cup {Account(email, phone, tech) :
            email \in {NONE, VAL}, phone \in {NONE, VAL}, tech \in {NONE, VAL}}

RevenueTag(t) == [tag |-> t, payment_type |-> MISSING]
Revenue(ptype) == [tag |-> DICT, payment_type |-> ptype]
RevenueSet ==
    {RevenueTag(t) : t \in {MISSING, NONE, EMPTY, BAD}} \cup {Revenue(NONE), Revenue(VAL)}

\* every category absent: ContractData() with no category set, or the keys left out
AbsentInput ==
    [parties |-> PartiesList(<<>>), account_info |-> AccountTag(NONE),
     financial_details |-> FinTag(NONE), payment_terms |-> PayTag(NONE),
     revenue_classification |-> RevenueTag(NONE), sla |-> SlaTag(NONE),
     contract_start_date |-> NONE, contract_end_date |-> NONE]

\* every field of every category set
FullInput ==
    [parties |-> PartiesList(<<FullParty>>), account_info |-> FullAccount,
     financial_details |-> FullFinancial, payment_terms |-> FullPayment,
     revenue_classification |-> Revenue(VAL), sla |-> FullSla,
     contract_start_date |-> VAL, contract_end_date |-> VAL]

Bases == {AbsentInput, FullInput}

\* Each category over all of its values beside the two bases, and every combination
\* of absent / None / complete categories.
Inputs ==
    {[b EXCEPT !.parties = v] : b \in Bases, v \in PartiesSet}
    \cup {[b EXCEPT !.financial_details = v] : b \in Bases, v \in FinancialSet}
    \cup {[b EXCEPT !.payment_terms = v] : b \in Bases, v \in PaymentSet}
    \cup {[b EXCEPT !.sla = v] : b \in Bases, v \in SlaSet}
    \cup {[b EXCEPT !.account_info = v] : b \in Bases, v \in AccountSet}
    \cup {[b EXCEPT !.revenue_classification = v] : b \in Bases, v \in RevenueSet}
    \cup {[b EXCEPT !.contract_start_date = v, !.contract_end_date = w] :
            b \in Bases, v \in Scalars, w \in Scalars}
    \cup {[parties |-> p, account_info |-> a, financial_details |-> f, payment_terms |-> y,
           revenue_classification |-> r, sla |-> l,
           contract_start_date |-> d, contract_end_date |-> d] :
            p \in {PartiesTag(MISSING), PartiesTag(NONE), PartiesList(<<>>),
                   PartiesList(<<FullParty>>)},
            a \in {AccountTag(MISSING), AccountTag(NONE), FullAccount},
            f \in {FinTag(MISSING), FinTag(NONE), FullFinancial},
            y \in {PayTag(NONE), FullPayment},
            r \in {RevenueTag(NONE), Revenue(VAL)},
            l \in {SlaTag(NONE), FullSla},
            d \in {MISSING, VAL}}

(***************************************************************************)
(* calculate_score and get_score_breakdown                                 *)
(***************************************************************************)
\* a key of the scores dict that was never assigned (a scorer before it raised)
UNSET == -2
NoScores ==
    [financial_completeness |-> UNSET, party_identification |-> UNSET,
     payment_terms_clarity |-> UNSET, sla_definition |-> UNSET, contact_information |-> UNSET]
NoReturn == [returned |-> FALSE, error |-> FALSE, score |-> 0, gaps |-> <<>>]

\* The scores dict as lines 33-37 leave it: the scorers run in this order and the
\* first one that raises ends the try block.
ScoresOf(pd) ==
    LET f == _calculate_financial_score(pd)
        p == IF f < 0 THEN UNSET ELSE _calculate_party_score(pd)
        y == IF p < 0 THEN UNSET ELSE _calculate_payment_score(pd)
        l == IF y < 0 THEN UNSET ELSE _calculate_sla_score(pd)
        c == IF l < 0 THEN UNSET ELSE _calculate_contact_score(pd)
    IN  [financial_completeness |-> f, party_identification |-> p,
         payment_terms_clarity |-> y, sla_definition |-> l, contact_information |-> c]

\* sum(scores[c] * self.weights[c] / 100 for c in scores), counted in hundredths of a
\* point: scores and weights are integers, so every term is a whole number of hundredths.
WeightedSum_DropContact(sc, w) ==
      sc.financial_completeness * w.financial_completeness
    + sc.party_identification * w.party_identification
    + sc.payment_terms_clarity * w.payment_terms_clarity
    + sc.sla_definition * w.sla_definition

WeightedSum(sc, w) ==
      sc.financial_completeness * w.financial_completeness
    + sc.party_identification * w.party_identification
    + sc.payment_terms_clarity * w.payment_terms_clarity
    + sc.sla_definition * w.sla_definition
    + sc.contact_information * w.contact_information

\* round(x, 2) of a value given in ten-thousandths of a point, in hundredths
Round2(x) == (x + 50) \div 100

\* except Exception as e: return 0.0, [f"Scoring error: {str(e)}"]
ScoringError == [returned |-> TRUE, error |-> TRUE, score |-> 0, gaps |-> <<"Scoring error">>]

\* What calculate_score returns for pd under the weights w: (score, gaps), the score
\* in hundredths of a point.
CalcReturn(pd, w) ==
    LET sc == ScoresOf(pd)
    IN  IF sc.contact_information < 0 \/ IdentifyGapsRaises(pd)
        THEN ScoringError
        ELSE [returned |-> TRUE, error |-> FALSE,
              score |-> Round2(WeightedSum(sc, w) * 100),
              gaps |-> _identify_gaps(pd)]

\* a calculate_score that trims the caller's parties list in place to the three
\* parties it scores
calculate_score_TrimsInput ==
    /\ calc_calls < MaxCalls
    /\ scores' = ScoresOf(parsed_data)
    /\ calc_ret' = CalcReturn(parsed_data, weights)
    /\ first_ret' = IF calc_calls = 0 THEN CalcReturn(parsed_data, weights) ELSE first_ret
    /\ calc_calls' = calc_calls + 1
    /\ parsed_data' = [parsed_data EXCEPT !.parties.items = FirstThree(@)]
    /\ UNCHANGED <<weights, bd_ret, bd_calls>>
    /\ UNCHANGED notScoreVars

calculate_score ==
    /\ calc_calls < MaxCalls
    /\ scores' = ScoresOf(parsed_data)
    /\ calc_ret' = CalcReturn(parsed_data, weights)
    /\ first_ret' = IF calc_calls = 0 THEN CalcReturn(parsed_data, weights) ELSE first_ret
    /\ calc_calls' = calc_calls + 1
    /\ UNCHANGED <<parsed_data, weights, bd_ret, bd_calls>>
    /\ UNCHANGED notScoreVars

NoBreakdown ==
    [returned |-> FALSE, raised |-> FALSE, overall_score |-> 0,
     component_scores |-> [financial_completeness |-> [score |-> UNSET, weight |-> 0, max_points |-> 0],
                           party_identification |-> [score |-> UNSET, weight |-> 0, max_points |-> 0],
                           payment_terms_clarity |-> [score |-> UNSET, weight |-> 0, max_points |-> 0],
                           sla_definition |-> [score |-> UNSET, weight |-> 0, max_points |-> 0],
                           contact_information |-> [score |-> UNSET, weight |-> 0, max_points |-> 0]],
     gaps |-> <<>>, total_possible_score |-> 0]

\* a breakdown that weighs the five categories equally
BreakdownReturn_EqualWeights(pd, w) ==
    LET sc == ScoresOf(pd)
        eq == [c \in DOMAIN w |-> 20]
        comp(c) == [score |-> sc[c], weight |-> eq[c], max_points |-> 100]
    IN  IF sc.contact_information < 0 \/ IdentifyGapsRaises(pd)
        THEN [NoBreakdown EXCEPT !.raised = TRUE]
        ELSE [returned |-> TRUE, raised |-> FALSE,
              overall_score |-> Round2(WeightedSum(sc, eq) * 100),
              component_scores |->
                  [financial_completeness |-> comp("financial_completeness"),
                   party_identification |-> comp("party_identification"),
                   payment_terms_clarity |-> comp("payment_terms_clarity"),
                   sla_definition |-> comp("sla_definition"),
                   contact_information |-> comp("contact_information")],
              gaps |-> _identify_gaps(pd),
              total_possible_score |-> 100]

\* What get_score_breakdown returns; it has no try block, so a scorer's exception
\* reaches the caller.
BreakdownReturn(pd, w) ==
    LET sc == ScoresOf(pd)
        comp(c) == [score |-> sc[c], weight |-> w[c], max_points |-> 100]
    IN  IF sc.contact_information < 0 \/ IdentifyGapsRaises(pd)
        THEN [NoBreakdown EXCEPT !.raised = TRUE]
        ELSE [returned |-> TRUE, raised |-> FALSE,
              overall_score |-> Round2(WeightedSum(sc, w) * 100),
              component_scores |->
                  [financial_completeness |-> comp("financial_completeness"),
                   party_identification |-> comp("party_identification"),
                   payment_terms_clarity |-> comp("payment_terms_clarity"),
                   sla_definition |-> comp("sla_definition"),
                   contact_information |-> comp("contact_information")],
              gaps |-> _identify_gaps(pd),
              total_possible_score |-> 100]

get_score_breakdown ==
    /\ bd_calls < 1
    /\ bd_ret' = BreakdownReturn(parsed_data, weights)
    /\ bd_calls' = bd_calls + 1
    /\ UNCHANGED <<parsed_data, weights, scores, calc_ret, first_ret, calc_calls>>
    /\ UNCHANGED notScoreVars

(***************************************************************************)
(* direct_gemini_extractor.py: DirectGeminiExtractor._combine_analyses      *)
(*                                                                         *)
(* An analysis is the dict the semantic adapter returns for one chunk.  A  *)
(* category of it is an absent key, None (only where the adapter does not  *)
(* validate the type) or a dict, here a function from its keys to values;  *)
(* a value is None, "" or a non-empty string.                              *)
(***************************************************************************)
EmptyDict == [k \in {} |-> ""]
ValueTruthy(v) == v \notin {NONE, ""}

\* str.lower() on the party names of the model
Lower(name) ==
    CASE name = "Acme Corp" -> "acme corp"
      [] name = "ACME CORP" -> "acme corp"
      [] name = "acme corp" -> "acme corp"
      [] name = "Beta LLC"  -> "beta llc"
      [] name = "BETA LLC"  -> "beta llc"
      [] OTHER -> name

\* The parties of the analyses in list order: the two nested for loops of lines 215-217.
RECURSIVE AllParties(_)
AllParties(as) ==
    IF as = <<>> THEN <<>>
    ELSE (IF Head(as).parties.tag = LIST THEN Head(as).parties.items ELSE <<>>)
         \o AllParties(Tail(as))

\* party.get('name', ''): '' for an absent key, None for a null name
NameOf(party) == IF party.name = MISSING THEN "" ELSE party.name

\* Lines 218-221 over the parties in order, from the list built and the set seen so far.
RECURSIVE DedupParties_CaseSensitive(_, _, _)
DedupParties_CaseSensitive(ps, acc, seen) ==
    IF ps = <<>> THEN acc
    ELSE LET party == Head(ps)
             party_key == NameOf(party)
         IN  IF party_key # "" /\ party_key \notin seen
             THEN DedupParties_CaseSensitive(Tail(ps), Append(acc, party), seen \cup {party_key})
             ELSE DedupParties_CaseSensitive(Tail(ps), acc, seen)

RECURSIVE DedupParties(_, _, _)
DedupParties(ps, acc, seen) ==
    IF ps = <<>> THEN acc
    ELSE LET party == Head(ps)
             party_key == Lower(NameOf(party))
         IN  IF party_key # "" /\ party_key \notin seen
             THEN DedupParties(Tail(ps), Append(acc, party), seen \cup {party_key})
             ELSE DedupParties(Tail(ps), acc, seen)

\* None.lower() is an AttributeError
PartiesRaise(as) == \E i \in DOMAIN AllParties(as) : AllParties(as)[i].name = NONE

\* for key, value in d.items():
\*     if value and (key not in acc or not acc[key]): acc[key] = value
MergeInto_LastWins(acc, d) ==
    LET set == {k \in DOMAIN d : ValueTruthy(d[k])}
    IN  [k \in DOMAIN acc \cup set |-> IF k \in set THEN d[k] ELSE acc[k]]

MergeInto(acc, d) ==
    LET set == {k \in DOMAIN d : ValueTruthy(d[k]) /\ (k \notin DOMAIN acc \/ ~ValueTruthy(acc[k]))}
    IN  [k \in DOMAIN acc \cup set |-> IF k \in set THEN d[k] ELSE acc[k]]

\* for analysis in analyses: if cat in analysis: merge analysis[cat] into combined[cat]
RECURSIVE MergeCategory(_, _, _)
MergeCategory(as, cat, acc) ==
    IF as = <<>> THEN acc
    ELSE MergeCategory(Tail(as), cat,
                       IF Head(as)[cat].tag = DICT THEN MergeInto(acc, Head(as)[cat].d) ELSE acc)

\* None.items() is an AttributeError
CategoryRaises(as, cat) == \E i \in DOMAIN as : as[i][cat].tag = NONE

\* for item in analysis[key]: if item and item not in combined[key]: append
RECURSIVE DedupItems(_, _)
DedupItems(items, acc) ==
    IF items = <<>> THEN acc
    ELSE DedupItems(Tail(items),
                    IF ValueTruthy(Head(items)) /\ Head(items) \notin Range(acc)
                    THEN Append(acc, Head(items)) ELSE acc)

RECURSIVE MergeList(_, _, _)
MergeList(as, key, acc) ==
    IF as = <<>> THEN acc
    ELSE MergeList(Tail(as), key,
                   IF Head(as)[key].tag = LIST THEN DedupItems(Head(as)[key].items, acc) ELSE acc)

\* confidences: the overall scores (hundredths) of the analyses that have one
RECURSIVE Confidences(_)
Confidences(as) ==
    IF as = <<>> THEN <<>>
    ELSE (IF Head(as).confidence_scores.tag = DICT /\ Head(as).confidence_scores.has_overall
          THEN <<Head(as).confidence_scores.overall>> ELSE <<>>)
         \o Confidences(Tail(as))

RECURSIVE SumSeq(_)
SumSeq(q) == IF q = <<>> THEN 0 ELSE Head(q) + SumSeq(Tail(q))

\* the sum divided by the number of analyses, not of scores
CombinedConfidence_OverAllAnalyses(as) ==
    LET confidences == Confidences(as)
    IN  IF confidences # <<>>
        THEN [num |-> SumSeq(confidences), den |-> 100 * Len(as)]
        ELSE [num |-> 80, den |-> 100]

\* sum(confidences) / len(confidences), else 0.8: the fraction num/den
CombinedConfidence(as) ==
    LET confidences == Confidences(as)
    IN  IF confidences # <<>>
        THEN [num |-> SumSeq(confidences), den |-> 100 * Len(confidences)]
        ELSE [num |-> 80, den |-> 100]

\* combined as line 201 sets it up
EmptyCombined ==
    [parties |-> <<>>, financial_details |-> EmptyDict, payment_terms |-> EmptyDict,
     sla |-> EmptyDict, contract_dates |-> EmptyDict, key_terms |-> <<>>,
     risk_factors |-> <<>>, compliance_issues |-> <<>>,
     confidence_scores |-> [num |-> 0, den |-> 1]]

CombineRaises(as) ==
    \/ PartiesRaise(as)
    \/ CategoryRaises(as, "financial_details")
    \/ CategoryRaises(as, "payment_terms")
    \/ CategoryRaises(as, "sla")
    \/ CategoryRaises(as, "contract_dates")

\* The dict _combine_analyses returns.
CombineResult(as) ==
    [parties           |-> DedupParties(AllParties(as), <<>>, {}),
     financial_details |-> MergeCategory(as, "financial_details", EmptyDict),
     payment_terms     |-> MergeCategory(as, "payment_terms", EmptyDict),
     sla               |-> MergeCategory(as, "sla", EmptyDict),
     contract_dates    |-> MergeCategory(as, "contract_dates", EmptyDict),
     key_terms         |-> MergeList(as, "key_terms", <<>>),
     risk_factors      |-> MergeList(as, "risk_factors", <<>>),
     compliance_issues |-> MergeList(as, "compliance_issues", <<>>),
     confidence_scores |-> CombinedConfidence(as)]

_combine_analyses ==
    /\ merge_pc = "ready"
    /\ IF CombineRaises(analyses)
       THEN merge_pc' = "raised" /\ combined' = EmptyCombined
       ELSE merge_pc' = "done" /\ combined' = CombineResult(analyses)
    /\ UNCHANGED analyses
    /\ UNCHANGED notMergeVars

(***************************************************************************)
(* direct_gemini_extractor.py: DirectGeminiExtractor._split_text_into_chunks*)
(*                                                                         *)
(* The function looks at the text only through len(text) and through       *)
(* `text[i] in '.!?'`, so a text is its length and the set of indices that *)
(* hold a sentence terminator; a chunk is the slice of the text it holds.  *)
(***************************************************************************)
ChunkSize      == 8000   \* self.chunk_size
Overlap        == 1000   \* self.overlap
SentenceWindow == 200    \* range(end, max(start + self.chunk_size - 200, start), -1)

\* text[i]: a negative index counts from the end
PyIndex(t, i) == IF i >= 0 THEN i ELSE t.len + i

\* the indices range(end, max(start + chunk_size - 200, start), -1) runs through
ScanRange(s, cs) == (Max(s + cs - SentenceWindow, s) + 1)..(s + cs)

\* those of them that hold a sentence terminator
ScanHits(t, s, cs) == {i \in ScanRange(s, cs) : PyIndex(t, i) \in t.terms}

\* text[i] is an IndexError below -len(text): the scan raises when it runs down to
\* such an index without having met a terminator
ScanRaises(t, s, cs) ==
    /\ s + cs < t.len
    /\ ScanHits(t, s, cs) = {}
    /\ \E i \in ScanRange(s, cs) : PyIndex(t, i) < 0

MaxOf(S) == CHOOSE i \in S : \A j \in S : j <= i

\* end moved behind the first terminator of the scanned indices, not the last
ChunkEnd_LowestHit(t, s, cs) ==
    LET end == s + cs
    IN  IF end < t.len /\ ScanHits(t, s, cs) # {}
        THEN (CHOOSE i \in ScanHits(t, s, cs) : \A j \in ScanHits(t, s, cs) : i <= j) + 1
        ELSE end

\* end, as lines 149-157 leave it
ChunkEnd(t, s, cs) ==
    LET end == s + cs
    IN  IF end < t.len /\ ScanHits(t, s, cs) # {}
        THEN MaxOf(ScanHits(t, s, cs)) + 1
        ELSE end

\* text[s:e], as the pair of the indices it runs between
Slice(t, s, e) ==
    LET lo == IF s < 0 THEN Max(t.len + s, 0) ELSE Min(s, t.len)
        hi == IF e < 0 THEN Max(t.len + e, 0) ELSE Min(e, t.len)
    IN  [lo |-> lo, hi |-> Max(lo, hi)]

\* start = end - self.overlap
NextStart_SkipsOne(end, ov) == end - ov + 1

NextStart(end, ov) == end - ov

MaxChunks == 12   \* the model stops a run that has built this many chunks

\* One pass of the while loop (lines 148-165), and the return that follows it.
\* A pass that leaves start where it was is followed by the same pass again, for
\* ever, each one appending the same chunk: the run is then "diverged", the state
\* that stands for the loop that never reaches the return.
_split_text_into_chunks ==
    /\ chunk_pc = "loop"
    /\ IF ~(start < text.len)
       THEN /\ chunk_pc' = "done"
            /\ UNCHANGED <<start, chunks>>
       ELSE IF ScanRaises(text, start, chunk_size)
       THEN /\ chunk_pc' = "raised"
            /\ UNCHANGED <<start, chunks>>
       ELSE LET end == ChunkEnd(text, start, chunk_size)
                next == NextStart(end, overlap)
            IN  /\ chunks' = Append(chunks, Slice(text, start, end))
                /\ start' = next
                /\ chunk_pc' = IF next >= text.len THEN "done"
                               ELSE IF next = start THEN "diverged"
                               ELSE IF Len(chunks) + 1 >= MaxChunks THEN "capped"
                               ELSE "loop"
    /\ UNCHANGED <<text, chunk_size, overlap>>
    /\ UNCHANGED notChunkVars

(***************************************************************************)
(* gemini_analyzer.py: GeminiContractAnalyzer                              *)
(*                                                                         *)
(* A JSON value is its type and, for a list or a dict, the types of its    *)
(* elements; a string carries its text.  A dict whose keys matter (the     *)
(* analysis) is a function from its keys to such values.                   *)
(***************************************************************************)
JNull        == [t |-> "null", v |-> <<>>]
JNum         == [t |-> "num",  v |-> <<>>]
JStr(s)      == [t |-> "str",  v |-> <<s>>]
JList(items) == [t |-> "list", v |-> items]
JDict(vals)  == [t |-> "dict", v |-> vals]

\* d.get(k, default)
Get(d, k, default) == IF k \in DOMAIN d THEN d[k] ELSE default
\* d[k] = v
With(d, k, v) == [x \in DOMAIN d \cup {k} |-> IF x = k THEN v ELSE d[x]]

\* _get_default_summary (lines 291-302): a dict of eight defaults
_get_default_summary ==
    JDict(<<"str", "list", "list", "str", "str", "list", "str", "str">>)

\* _get_fallback_data (lines 272-289): the empty analysis
FallbackKeys ==
    {"overview", "parties", "financial_details", "payment_terms",
     "revenue_classification", "sla", "important_dates", "key_terms",
     "main_obligations", "risk_factors", "compliance_issues", "contract_type",
     "confidence_scores", "summary"}

_get_fallback_data ==
    [k \in FallbackKeys |->
        CASE k = "overview" -> JStr("Contract analysis could not be completed")
          [] k \in {"parties", "key_terms", "main_obligations", "risk_factors",
                    "compliance_issues"} -> JList(<<>>)
          [] k = "contract_type" -> JStr("Unknown")
          [] k = "summary" -> _get_default_summary
          [] OTHER -> JDict(<<>>)]

\* _validate_and_clean_result on a dict (lines 243-266)
RequiredFields == <<"parties", "financial_details", "payment_terms", "summary">>

RECURSIVE EnsureRequired(_, _)
EnsureRequired(data, i) ==
    IF i > Len(RequiredFields) THEN data
    ELSE EnsureRequired(IF RequiredFields[i] \in DOMAIN data THEN data
                        ELSE With(data, RequiredFields[i], JDict(<<>>)), i + 1)

IsDictItem(x) == x = "dict"

CleanDict(data) ==
    LET d0 == EnsureRequired(data, 1)
        d1 == With(d0, "parties",
                   IF d0["parties"].t = "list"
                   THEN JList(SelectSeq(d0["parties"].v, IsDictItem))
                   ELSE JList(<<>>))
        d2 == IF d1["financial_details"].t # "dict"
              THEN With(d1, "financial_details", JDict(<<>>)) ELSE d1
        d3 == IF d2["payment_terms"].t # "dict"
              THEN With(d2, "payment_terms", JDict(<<>>)) ELSE d2
    IN  IF d3["summary"].t # "dict" THEN With(d3, "summary", _get_default_summary) ELSE d3

\* _validate_and_clean_result (lines 239-270): on a JSON value that is not an
\* object the first `data[field] = {}` (or the `in` test) raises, and the except
\* branch returns the fallback data
_validate_and_clean_result(r) ==
    IF r.kind = "object" THEN CleanDict(r.object) ELSE _get_fallback_data

\* _parse_ai_response (lines 213-237): a leading markdown fence that names json
\* and a trailing fence are cut off ("fence_json", "fence" for a fence that does
\* not name json and stays, "" for none); json.loads raises on what is not JSON
JsonLoads(r) == r.open \in {"", "fence_json"} /\ r.kind # "text"

_parse_ai_response(r) ==
    IF JsonLoads(r) THEN _validate_and_clean_result(r) ELSE _get_fallback_data

\* analyze_contract (lines 23-43), as the value it returns
AnalyzeContract(en, r) ==
    IF ~en THEN _get_fallback_data
    ELSE IF r.call = "raises" THEN _get_fallback_data
    ELSE _parse_ai_response(r)

analyze_contract ==
    /\ analyze_pc = "ready"
    /\ analysis' = AnalyzeContract(enabled, response)
    /\ analyze_pc' = "returned"
    /\ UNCHANGED <<file, enabled, response, parse_ret, parse_pc>>
    /\ UNCHANGED notParseVars

(***************************************************************************)
(* enhanced_parser.py: EnhancedContractParser.parse_contract, and          *)
(* parser.py: ContractParser.parse_contract                                *)
(*                                                                         *)
(* A ContractData is the pathway that built it, its contract_type and its  *)
(* processing_notes; every other field has the model's default or what the *)
(* pathway extracted.                                                      *)
(***************************************************************************)
NoContractData == [by |-> "none", contract_type |-> NONE, processing_notes |-> <<>>]

ContractDataOf(by, ctype, notes) ==
    [by |-> by, contract_type |-> ctype, processing_notes |-> notes]

\* _extract_text_enhanced (lines 321-355): pdfplumber and PyMuPDF, and in the
\* except branch PyPDF2 with nothing around it
ExtractTextEnhancedRaises(f) == f.primary = "fails" /\ f.pypdf2 = "raises"

\* the conversions of lines 95-100: each has its own try/except, and only the
\* iteration over ai_analysis.get("parties", []) is outside of one
ConversionRaises(ai) == Get(ai, "parties", JList(<<>>)).t \in {"null", "num"}

\* _parse_contract_manual_improved (lines 156-220)
_parse_contract_manual_improved(f) ==
    ContractDataOf("manual", "Service Agreement", <<"Manual extraction completed">>)

AllOf(q, ty) == \A i \in DOMAIN q : q[i] = ty

\* ContractData(...) of lines 128-148 validates what it is given: contract_type is
\* Optional[str], confidence_scores Dict[str, float], risk_factors and
\* compliance_issues List[str]
ContractDataValid(ai) ==
    /\ Get(ai, "contract_type", JStr("Unknown")).t \in {"str", "null"}
    /\ LET c == Get(ai, "confidence_scores", JDict(<<>>))
       IN  c.t = "dict" /\ AllOf(c.v, "num")
    /\ \A k \in {"risk_factors", "compliance_issues"} :
          LET l == Get(ai, k, JList(<<>>)) IN l.t = "list" /\ AllOf(l.v, "str")

StrOrNone(x) == IF x.t = "str" THEN x.v[1] ELSE NONE

\* a call that raised instead of returning a ContractData
Raised == ContractDataOf("raised", NONE, <<>>)

\* EnhancedContractParser.parse_contract (lines 84-154)
EnhancedParse(f, en, r) ==
    IF ExtractTextEnhancedRaises(f) THEN Raised
    ELSE LET ai_analysis == AnalyzeContract(en, r)
         IN  IF ConversionRaises(ai_analysis) THEN _parse_contract_manual_improved(f)
             ELSE IF ~ContractDataValid(ai_analysis) THEN Raised
             ELSE ContractDataOf("enhanced",
                      StrOrNone(Get(ai_analysis, "contract_type", JStr("Unknown"))),
                      <<"AI-powered analysis completed using Gemini",
                        "Extracted {len(parties)} parties",
                        "Identified {len(key_value_pairs)} key-value pairs">>)

\* ContractParser._parse_contract_basic (parser.py lines 35-66): PyPDF2 again,
\* the regex extractors, and a ContractData with no processing_notes
ParseBasic(f) ==
    IF f.pypdf2 = "raises" THEN Raised
    ELSE ContractDataOf("basic", f.type, <<>>)

\* ContractParser.parse_contract (parser.py lines 24-33)
ParseContract(f, en, r) ==
    IF EnhancedParse(f, en, r) # Raised THEN EnhancedParse(f, en, r) ELSE ParseBasic(f)

parse_contract ==
    /\ parse_pc = "ready"
    /\ LET ret == ParseContract(file, enabled, response)
       IN  IF ret = Raised
           THEN parse_pc' = "raised" /\ UNCHANGED parse_ret
           ELSE parse_pc' = "returned" /\ parse_ret' = ret
    /\ UNCHANGED <<file, enabled, response, analysis, analyze_pc>>
    /\ UNCHANGED notParseVars

NoResponse ==
    [call |-> "raises", open |-> "", close |-> FALSE, kind |-> "text", object |-> EmptyDict]

\* the analyzer and the parser at rest
ParseIdle ==
    /\ file = [primary |-> "ok", pypdf2 |-> "ok", type |-> NONE]
    /\ enabled = FALSE
    /\ response = NoResponse
    /\ analysis = EmptyDict
    /\ analyze_pc = "idle"
    /\ parse_ret = NoContractData
    /\ parse_pc = "idle"

(***************************************************************************)
(* main.py: the HTTP handlers and the process_contract background task     *)
(*                                                                         *)
(* The model follows one contract id.  Every `await` of process_contract   *)
(* is a step of its own, so the handlers interleave with the task as the   *)
(* event loop lets them; a database call of the task's try block either    *)
(* takes effect or raises without effect.                                  *)
(***************************************************************************)
PENDING    == "pending"      \* ContractStatus (models.py lines 7-11)
PROCESSING == "processing"
COMPLETED  == "completed"
FAILED     == "failed"

MaxRetries  == 3     \* max_retries = 3
MaxRequests == 3     \* HTTP requests the model lets in

\* no record of the contract id in app.mongodb.contracts
NoRecord ==
    [exists |-> FALSE, status |-> "none", progress |-> 0, retry_count |-> UNSET,
     parsed_data |-> NONE, score |-> NONE, gaps |-> "default",
     error |-> NONE, last_error |-> MISSING]

\* Contract(id=..., status=ContractStatus.PENDING, ...).dict() (lines 118-127)
NewRecord ==
    [exists |-> TRUE, status |-> PENDING, progress |-> 0, retry_count |-> UNSET,
     parsed_data |-> NONE, score |-> NONE, gaps |-> "default",
     error |-> NONE, last_error |-> MISSING]

\* the local `contract` of a process_contract call before find_one has returned
Unbound == [bound |-> FALSE, retry_count |-> UNSET]

NoHttp == [op |-> "none", arg |-> "", status_code |-> 0, detail |-> "", n |-> 0]
Respond(op, arg, code, detail) ==
    [op |-> op, arg |-> arg, status_code |-> code, detail |-> detail, n |-> http.n + 1]

\* upload_contract (lines 79-136)
Filenames == {"contract.pdf", "SCAN.PDF", "notes.txt", ""}
\* file.filename.lower().endswith('.pdf')
EndsWithPdf(name) == name \in {"contract.pdf", "SCAN.PDF"}

\* the content of an upload: a PDF, more than 50MB, no %PDF header, a PDF that
\* holds a script tag
Contents == {"pdf", "large", "text", "script"}

\* the detail of the HTTPException(400) the validations of lines 83-104 raise,
\* "" when they all pass
UploadRejection(name, content) ==
    IF name = "" \/ ~EndsWithPdf(name) THEN "Only PDF files are supported"
    ELSE IF content = "large" THEN "File size exceeds 50MB limit"
    ELSE IF content = "text" THEN "Invalid PDF file format"
    ELSE IF content = "script" THEN "File contains potentially malicious content"
    ELSE ""

\* The HTTPException raised by a validation is raised inside the try block and
\* HTTPException is an Exception: `except Exception` (line 134) catches it and
\* raises HTTPException(500).
upload_contract ==
    /\ http.n < MaxRequests
    /\ \E name \in Filenames, content \in Contents :
          IF UploadRejection(name, content) # ""
          THEN /\ http' = Respond("upload_contract", name, 500,
                                  "Error uploading contract: {str(e)}")
               /\ UNCHANGED <<db, disk, task_pc>>
          ELSE /\ task_pc = "none"
               /\ disk' = TRUE
               /\ db' = NewRecord
               /\ task_pc' = "start"
               /\ http' = Respond("upload_contract", name, 200,
                                  "Contract uploaded successfully")
    /\ UNCHANGED <<contract, err, attempts, del_pc>>
    /\ UNCHANGED notApiVars

\* get_contract_status (lines 138-158)
get_contract_status ==
    /\ http.n < MaxRequests
    /\ http' = IF ~db.exists
               THEN Respond("get_contract_status", "", 404, "Contract not found")
               ELSE Respond("get_contract_status", "", 200, db.status)
    /\ UNCHANGED <<db, disk, task_pc, contract, err, attempts, del_pc>>
    /\ UNCHANGED notApiVars

\* get_contract_data (lines 160-177)
get_contract_data ==
    /\ http.n < MaxRequests
    /\ http' = IF ~db.exists
               THEN Respond("get_contract_data", "", 404, "Contract not found")
               ELSE IF db.status # COMPLETED
               THEN Respond("get_contract_data", "", 400, "Contract processing not completed")
               ELSE Respond("get_contract_data", "", 200, db.parsed_data)
    /\ UNCHANGED <<db, disk, task_pc, contract, err, attempts, del_pc>>
    /\ UNCHANGED notApiVars

\* delete_contract (lines 253-290), up to its second await: find_one, and
\* os.remove of the file
delete_contract_find ==
    /\ http.n < MaxRequests
    /\ del_pc = "idle"
    /\ IF ~db.exists
       THEN /\ http' = Respond("delete_contract", "", 404, "Contract not found")
            /\ UNCHANGED <<disk, del_pc>>
       ELSE /\ disk' = FALSE
            /\ del_pc' = "found"
            /\ UNCHANGED http
    /\ UNCHANGED <<db, task_pc, contract, err, attempts>>
    /\ UNCHANGED notApiVars

\* delete_contract from delete_one on
delete_contract ==
    /\ del_pc = "found"
    /\ del_pc' = "idle"
    /\ db' = NoRecord
    /\ http' = IF db.exists
               THEN Respond("delete_contract", "", 200, "Contract deleted successfully")
               ELSE Respond("delete_contract", "", 404, "Contract not found in database")
    /\ UNCHANGED <<disk, task_pc, contract, err, attempts>>
    /\ UNCHANGED notApiVars

\* what an awaited call of the try block does: it returns, or it raises an
\* exception whose message holds "timeout" or one whose message does not
Outcomes == {"ok", "timeout", "other"}

\* except Exception as e (line 348)
Raise(e) ==
    /\ err' = e
    /\ task_pc' = "except"

\* process_contract, lines 295-304: the first update_one
process_contract_start ==
    /\ task_pc = "start"
    /\ attempts' = attempts + 1
    /\ contract' = Unbound
    /\ \E o \in Outcomes :
          IF o = "ok"
          THEN /\ db' = IF db.exists
                        THEN [db EXCEPT !.status = PROCESSING, !.progress = 10]
                        ELSE db
               /\ task_pc' = "find"
               /\ UNCHANGED err
          ELSE Raise(o) /\ UNCHANGED db
    /\ UNCHANGED <<disk, http, del_pc>>
    /\ UNCHANGED notApiVars

\* lines 307-310: find_one, and the return when there is no record
process_contract_find ==
    /\ task_pc = "find"
    /\ \E o \in Outcomes :
          IF o = "ok"
          THEN /\ contract' = [bound |-> TRUE, retry_count |-> db.retry_count]
               /\ task_pc' = IF db.exists THEN "progress50" ELSE "done"
               /\ UNCHANGED err
          ELSE Raise(o) /\ UNCHANGED contract
    /\ UNCHANGED <<db, disk, attempts, http, del_pc>>
    /\ UNCHANGED notApiVars

\* the progress update as an upsert: it writes a record when it finds none
process_contract_progress50_Upserts ==
    /\ task_pc = "progress50"
    /\ \E o \in Outcomes :
          IF o = "ok"
          THEN /\ db' = [db EXCEPT !.exists = TRUE, !.progress = 50]
               /\ task_pc' = "parse"
               /\ UNCHANGED err
          ELSE Raise(o) /\ UNCHANGED db
    /\ UNCHANGED <<disk, contract, attempts, http, del_pc>>
    /\ UNCHANGED notApiVars

\* lines 313-316
process_contract_progress50 ==
    /\ task_pc = "progress50"
    /\ \E o \in Outcomes :
          IF o = "ok"
          THEN /\ db' = IF db.exists THEN [db EXCEPT !.progress = 50] ELSE db
               /\ task_pc' = "parse"
               /\ UNCHANGED err
          ELSE Raise(o) /\ UNCHANGED db
    /\ UNCHANGED <<disk, contract, attempts, http, del_pc>>
    /\ UNCHANGED notApiVars

\* line 319: contract_parser.parse_contract(contract["file_path"]) raises when no
\* extractor can read the file
process_contract_parse ==
    /\ task_pc = "parse"
    /\ \E o \in (IF disk THEN Outcomes ELSE {"other"}) :
          IF o = "ok"
          THEN task_pc' = "progress80" /\ UNCHANGED err
          ELSE Raise(o)
    /\ UNCHANGED <<db, disk, contract, attempts, http, del_pc>>
    /\ UNCHANGED notApiVars

\* lines 322-331: the update, and calculate_score, which does not raise
process_contract_progress80 ==
    /\ task_pc = "progress80"
    /\ \E o \in Outcomes :
          IF o = "ok"
          THEN /\ db' = IF db.exists THEN [db EXCEPT !.progress = 80] ELSE db
               /\ task_pc' = "complete"
               /\ UNCHANGED err
          ELSE Raise(o) /\ UNCHANGED db
    /\ UNCHANGED <<disk, contract, attempts, http, del_pc>>
    /\ UNCHANGED notApiVars

\* the status written on its own, the results left for a later update
process_contract_complete_StatusFirst ==
    /\ task_pc = "complete"
    /\ \E o \in Outcomes :
          IF o = "ok"
          THEN /\ db' = IF db.exists
                        THEN [db EXCEPT !.status = COMPLETED, !.progress = 100]
                        ELSE db
               /\ task_pc' = "done"
               /\ UNCHANGED err
          ELSE Raise(o) /\ UNCHANGED db
    /\ UNCHANGED <<disk, contract, attempts, http, del_pc>>
    /\ UNCHANGED notApiVars

\* lines 334-346: one update_one that sets status, progress and the results
process_contract_complete ==
    /\ task_pc = "complete"
    /\ \E o \in Outcomes :
          IF o = "ok"
          THEN /\ db' = IF db.exists
                        THEN [db EXCEPT !.status = COMPLETED, !.progress = 100,
                                        !.parsed_data = "ContractData",
                                        !.score = "score", !.gaps = "gaps"]
                        ELSE db
               /\ task_pc' = "done"
               /\ UNCHANGED err
          ELSE Raise(o) /\ UNCHANGED db
    /\ UNCHANGED <<disk, contract, attempts, http, del_pc>>
    /\ UNCHANGED notApiVars

\* contract.get("retry_count", 0)
RetryCount(c) == IF c.retry_count = UNSET THEN 0 ELSE c.retry_count

\* a timeout is retried once more after the retries are used up and the record
\* is marked failed
process_contract_except_RetryAfterFailed ==
    /\ task_pc = "except"
    /\ IF ~contract.bound
       THEN /\ task_pc' = "escaped"
            /\ UNCHANGED db
       ELSE IF RetryCount(contract) < MaxRetries /\ err = "timeout"
       THEN /\ db' = IF db.exists
                     THEN [db EXCEPT !.status = PENDING, !.progress = 0,
                                     !.retry_count = RetryCount(contract) + 1,
                                     !.last_error = err]
                     ELSE db
            /\ task_pc' = "sleep"
       ELSE /\ db' = IF db.exists
                     THEN [db EXCEPT !.status = FAILED, !.error = err,
                                     !.retry_count = RetryCount(contract)]
                     ELSE db
            /\ task_pc' = IF err = "timeout" /\ attempts <= MaxRetries + 1 THEN "sleep" ELSE "done"
    /\ UNCHANGED <<disk, contract, err, attempts, http, del_pc>>
    /\ UNCHANGED notApiVars

\* lines 348-387, the except branch: `contract` is read first, and is unbound
\* when the exception came from the first update_one or from find_one; the
\* UnboundLocalError leaves the task
process_contract_except ==
    /\ task_pc = "except"
    /\ IF ~contract.bound
       THEN /\ task_pc' = "escaped"
            /\ UNCHANGED db
       ELSE IF RetryCount(contract) < MaxRetries /\ err = "timeout"
       THEN /\ db' = IF db.exists
                     THEN [db EXCEPT !.status = PENDING, !.progress = 0,
                                     !.retry_count = RetryCount(contract) + 1,
                                     !.last_error = err]
                     ELSE db
            /\ task_pc' = "sleep"
       ELSE /\ db' = IF db.exists
                     THEN [db EXCEPT !.status = FAILED, !.error = err,
                                     !.retry_count = RetryCount(contract)]
                     ELSE db
            /\ task_pc' = "done"
    /\ UNCHANGED <<disk, contract, err, attempts, http, del_pc>>
    /\ UNCHANGED notApiVars

\* lines 371-372: asyncio.sleep(30) is over and process_contract calls itself
process_contract_retry ==
    /\ task_pc = "sleep"
    /\ task_pc' = "start"
    /\ UNCHANGED <<db, disk, contract, err, attempts, http, del_pc>>
    /\ UNCHANGED notApiVars

\* the steps of the background task
process_contract ==
    \/ process_contract_start
    \/ process_contract_find
    \/ process_contract_progress50
    \/ process_contract_parse
    \/ process_contract_progress80
    \/ process_contract_complete
    \/ process_contract_except
    \/ process_contract_retry

\* the application after startup: no contract uploaded
ApiIdle ==
    /\ db = NoRecord
    /\ disk = FALSE
    /\ task_pc = "none"
    /\ contract = Unbound
    /\ err = "none"
    /\ attempts = 0
    /\ http = NoHttp
    /\ del_pc = "idle"

\* extract_contract_data before it is called
NoExtract ==
    [fallback |-> FALSE, contract_start_date |-> "", contract_end_date |-> "",
     contract_type |-> "", processing_notes |-> <<>>]
ExtractIdle ==
    /\ chunk_outcomes = <<>>
    /\ direct = FALSE
    /\ chunk_i = 0
    /\ extract_pc = "idle"
    /\ extract_ret = NoExtract

\* the merge and the chunker at rest
MergeIdle ==
    /\ analyses = <<>>
    /\ combined = EmptyCombined
    /\ merge_pc = "idle"
ChunkIdle ==
    /\ text = [len |-> 0, terms |-> {}]
    /\ chunk_size = 0
    /\ overlap = 0
    /\ start = 0
    /\ chunks = <<>>
    /\ chunk_pc = "idle"
ScoreIdle ==
    /\ parsed_data = AbsentInput
    /\ weights = InitWeights
    /\ scores = NoScores
    /\ calc_ret = NoReturn
    /\ first_ret = NoReturn
    /\ calc_calls = 0
    /\ bd_ret = NoBreakdown
    /\ bd_calls = 0

Init ==
    /\ parsed_data \in Inputs
    /\ weights = InitWeights
    /\ scores = NoScores
    /\ calc_ret = NoReturn
    /\ first_ret = NoReturn
    /\ calc_calls = 0
    /\ bd_ret = NoBreakdown
    /\ bd_calls = 0
    /\ MergeIdle
    /\ ChunkIdle
    /\ ParseIdle
    /\ ApiIdle
    /\ ExtractIdle

Next ==
    \/ calculate_score
    \/ get_score_breakdown

Spec == Init /\ [][Next]_vars

(***************************************************************************)
(* Properties of the scoring engine (checked under Spec)                   *)
(***************************************************************************)
Returned == calc_calls > 0 /\ calc_ret.returned

\* financial_details with a total value, a non-empty list of line items that each
\* have a description and a unit price, a currency, a tax amount and fees
FinancialComplete(pd) ==
    LET fd == pd.financial_details
    IN  /\ fd.tag = DICT
        /\ Truthy(fd.total_contract_value)
        /\ fd.line_items # <<>>
        /\ \A i \in DOMAIN fd.line_items :
              Truthy(fd.line_items[i].description) /\ Truthy(fd.line_items[i].unit_price)
        /\ Truthy(fd.currency)
        /\ Truthy(fd.tax_amount)
        /\ Truthy(fd.additional_fees)

\* C1: whenever financial_details holds a total value, detailed line items, a
\* currency, a tax amount and fees, the financial_completeness score is exactly 100
\* (40 + 30 + 10 + 10 + 10).
C1_CompleteFinancialScores100 ==
    (Returned /\ FinancialComplete(parsed_data)) => scores.financial_completeness = 100

\* C2: the weights are 30/25/20/15/10 and sum to 100, and the score a call returns
\* through its normal path is the weighted sum of the five category scores (hundredths
\* of a point: score * 100 = sum of category score * weight).
C2_OverallIsWeightedSum ==
    /\ weights = [financial_completeness |-> 30, party_identification |-> 25,
                  payment_terms_clarity |-> 20, sla_definition |-> 15,
                  contact_information |-> 10]
    /\ weights.financial_completeness + weights.party_identification
         + weights.payment_terms_clarity + weights.sla_definition
         + weights.contact_information = 100
    /\ (Returned /\ ~calc_ret.error) =>
          calc_ret.score =   30 * scores.financial_completeness
                           + 25 * scores.party_identification
                           + 20 * scores.payment_terms_clarity
                           + 15 * scores.sla_definition
                           + 10 * scores.contact_information

\* a call has returned an overall score with a fractional part, every category
\* contributing
C2_Witness ==
    /\ Returned /\ ~calc_ret.error
    /\ \A i \in DOMAIN Components : scores[Components[i]] > 0
    /\ calc_ret.score % 100 # 0

\* C3: every category score that a call computes lies in 0..100, and the overall
\* score of calculate_score and of get_score_breakdown lies in 0..100 (0..10000
\* hundredths).
C3_ScoresInRange ==
    /\ \A i \in DOMAIN Components :
          scores[Components[i]] \in {UNSET, RAISE} \/ scores[Components[i]] \in 0..100
    /\ calc_ret.score \in 0..10000
    /\ bd_ret.returned =>
          /\ bd_ret.overall_score \in 0..10000
          /\ \A i \in DOMAIN Components :
                bd_ret.component_scores[Components[i]].score \in 0..100

\* both calls have returned for an input with several complete parties, whose
\* points beyond the cap are cut to 100
C3_Witness ==
    /\ Returned /\ ~calc_ret.error /\ bd_ret.returned
    /\ parsed_data.parties.tag = LIST
    /\ Len(parsed_data.parties.items) >= 2
    /\ \A i \in DOMAIN parsed_data.parties.items : parsed_data.parties.items[i] = FullParty
    /\ scores.party_identification = 100
    /\ bd_ret.component_scores.party_identification.score = 100

C4_FieldPoints ==
    [name |-> 20, role |-> 15, legal_entity |-> 15, email |-> 10, phone |-> 10,
     address |-> 10, registration_number |-> 10]

RECURSIVE C4_SumPoints(_, _)
C4_SumPoints(party, fields) ==
    IF fields = {} THEN 0
    ELSE LET f == CHOOSE x \in fields : TRUE
         IN  (IF party[f] = VAL THEN C4_FieldPoints[f] ELSE 0)
             + C4_SumPoints(party, fields \ {f})

C4_PartyTerm(ps, i) ==
    IF i <= Len(ps) THEN Min(80, C4_SumPoints(ps[i], PartyFields)) ELSE 0

\* C4: the party_identification score is 0 without parties and otherwise
\* min(100, 20 + the capped points of the first three parties); one party with all
\* seven fields scores 100.
C4_PartyScoreFormula ==
    (calc_calls > 0 /\ scores.party_identification >= 0) =>
        LET ps == parsed_data.parties.items
        IN  /\ scores.party_identification =
                  IF ps = <<>> THEN 0
                  ELSE Min(100, 20 + C4_PartyTerm(ps, 1) + C4_PartyTerm(ps, 2)
                                   + C4_PartyTerm(ps, 3))
            /\ ps = <<FullParty>> => scores.party_identification = 100

\* a fourth, complete party after three parties that only have an email: the score
\* is that of the first three
C4_Witness ==
    /\ calc_calls > 0
    /\ parsed_data.parties.tag = LIST
    /\ Len(parsed_data.parties.items) = 4
    /\ parsed_data.parties.items[4] = FullParty
    /\ scores.party_identification = 50

\* no parties (no key or an empty list), no category (no key, None or {}), no dates
AllAbsent(pd) ==
    /\ pd.parties.tag \in {MISSING, LIST} /\ pd.parties.items = <<>>
    /\ ~CatTruthy(pd.financial_details)
    /\ ~CatTruthy(pd.payment_terms)
    /\ ~CatTruthy(pd.account_info)
    /\ ~CatTruthy(pd.revenue_classification)
    /\ ~CatTruthy(pd.sla)
    /\ ~Truthy(pd.contract_start_date)
    /\ ~Truthy(pd.contract_end_date)

EmptyContractGaps ==
    {"No contract parties identified", "No financial details found",
     "No payment terms found", "No account information found",
     "No revenue classification found", "No SLA information found",
     "Missing contract start date", "Missing contract end date"}

\* C5: for an input with every category absent, calculate_score returns 0.0 and a
\* gap list that holds all eight messages.
C5_EmptyContract ==
    (Returned /\ AllAbsent(parsed_data)) =>
        /\ calc_ret.score = 0
        /\ EmptyContractGaps \subseteq Range(calc_ret.gaps)

C5_Witness ==
    /\ Returned
    /\ parsed_data = AbsentInput
    /\ calc_ret.score = 0
    /\ Len(calc_ret.gaps) = 8

\* no category of pd has the wrong shape: each is an absent key, None, or a value of
\* the type models.py gives it
NoWrongShape(pd) ==
    /\ pd.parties.tag # BAD
    /\ pd.financial_details.tag # BAD
    /\ pd.payment_terms.tag # BAD
    /\ pd.account_info.tag # BAD
    /\ pd.revenue_classification.tag # BAD
    /\ pd.sla.tag # BAD

Absent(c) == c.tag \in {MISSING, NONE}

\* C6: calculate_score always returns, and a category whose key is missing or None
\* scores 0 for its component only: the call takes its normal path and the other
\* categories' points are in the overall score.
C6_MissingCategoryScoresZeroOnly ==
    calc_calls > 0 =>
        /\ calc_ret.returned
        /\ NoWrongShape(parsed_data) =>
              /\ ~calc_ret.error
              /\ Absent(parsed_data.financial_details) => scores.financial_completeness = 0
              /\ Absent(parsed_data.parties) => scores.party_identification = 0
              /\ Absent(parsed_data.payment_terms) => scores.payment_terms_clarity = 0
              /\ Absent(parsed_data.sla) => scores.sla_definition = 0
              /\ calc_ret.score >= 30 * _calculate_financial_score(parsed_data)

MaxAnalyses == 3    \* longest list of analyses

NoCat       == [tag |-> MISSING, d |-> EmptyDict]
NoneCat     == [tag |-> NONE, d |-> EmptyDict]
DictCat(d)  == [tag |-> DICT, d |-> d]
NoList      == [tag |-> MISSING, items |-> <<>>]
ListOf(q)   == [tag |-> LIST, items |-> q]
NoConfidence == [tag |-> MISSING, has_overall |-> FALSE, overall |-> 0]
Confidence(c) == [tag |-> DICT, has_overall |-> TRUE, overall |-> c]

\* a dict with the key k unless v is MISSING
Entry(k, v) == IF v = MISSING THEN EmptyDict ELSE [x \in {k} |-> v]
\* the union of two dicts with different keys
Both(d, e) == [k \in DOMAIN d \cup DOMAIN e |-> IF k \in DOMAIN d THEN d[k] ELSE e[k]]

MergeParty(name, email) == [name |-> name, role |-> "vendor", email |-> email]

\* an analysis with no key at all
BlankAnalysis ==
    [parties |-> NoList, financial_details |-> NoCat, payment_terms |-> NoCat,
     sla |-> NoCat, contract_dates |-> NoCat, important_dates |-> NoCat,
     key_terms |-> NoList, risk_factors |-> NoList, compliance_issues |-> NoList,
     confidence_scores |-> NoConfidence]

\* GeminiContractAnalyzer._get_fallback_data: the empty analysis
FallbackAnalysis ==
    [parties |-> ListOf(<<>>), financial_details |-> DictCat(EmptyDict),
     payment_terms |-> DictCat(EmptyDict), sla |-> DictCat(EmptyDict),
     contract_dates |-> NoCat, important_dates |-> DictCat(EmptyDict),
     key_terms |-> ListOf(<<>>), risk_factors |-> ListOf(<<>>),
     compliance_issues |-> ListOf(<<>>),
     confidence_scores |-> [tag |-> DICT, has_overall |-> FALSE, overall |-> 0]]

\* two analyses of chunks of one contract that disagree on several keys
ChunkAnalysisA ==
    [parties |-> ListOf(<<MergeParty("Acme Corp", "a@acme.com"), MergeParty("Beta LLC", "b@beta.com")>>),
     financial_details |-> DictCat(Both(Entry("currency", "USD"), Entry("total_contract_value", NONE))),
     payment_terms |-> DictCat(Entry("banking_details", "X")),
     sla |-> DictCat(Entry("support_terms", "24/7")),
     contract_dates |-> NoCat, important_dates |-> DictCat(Entry("start_date", "2024-01-01")),
     key_terms |-> ListOf(<<"renewal", "">>), risk_factors |-> ListOf(<<"penalty">>),
     compliance_issues |-> ListOf(<<>>),
     confidence_scores |-> Confidence(90)]

ChunkAnalysisB ==
    [parties |-> ListOf(<<MergeParty("ACME CORP", "legal@acme.com")>>),
     financial_details |-> DictCat(Both(Entry("currency", "EUR"), Entry("total_contract_value", "50000"))),
     payment_terms |-> DictCat(Both(Entry("banking_details", "Y"), Entry("payment_terms", "Net 30"))),
     sla |-> NoneCat,
     contract_dates |-> NoCat, important_dates |-> DictCat(Entry("start_date", "2024-02-01")),
     key_terms |-> ListOf(<<"renewal", "termination">>), risk_factors |-> ListOf(<<>>),
     compliance_issues |-> ListOf(<<"GDPR">>),
     confidence_scores |-> Confidence(60)]

PaymentOptions ==
    {NoCat} \cup
    {DictCat(Both(Entry("banking_details", b), Entry("payment_terms", t))) :
        b \in {MISSING, "", "X", "Y"}, t \in {MISSING, "Net 30"}}

FinancialOptions ==
    {NoCat} \cup {DictCat(Entry("currency", c)) : c \in {NONE, "USD", "EUR"}}

SlaOptions ==
    {NoCat, NoneCat, DictCat(Entry("support_terms", "24/7")), DictCat(Entry("support_terms", "9-5"))}

PartiesOptions ==
    {NoList}
    \cup {ListOf(<<MergeParty(n, e)>>) :
            n \in {"Acme Corp", "ACME CORP", "Beta LLC"}, e \in {"a@acme.com", "legal@acme.com"}}
    \cup {ListOf(<<MergeParty("", "a@acme.com")>>), ListOf(<<MergeParty(MISSING, "a@acme.com")>>),
          ListOf(<<MergeParty(NONE, "a@acme.com")>>)}
    \cup {ListOf(<<MergeParty("Beta LLC", "b@beta.com"), MergeParty("acme corp", "a@acme.com")>>),
          ListOf(<<MergeParty("Acme Corp", "a@acme.com"), MergeParty("ACME CORP", "legal@acme.com")>>)}

AnalysisSets ==
    { {[BlankAnalysis EXCEPT !.payment_terms = y] : y \in PaymentOptions},
      {[BlankAnalysis EXCEPT !.financial_details = f, !.sla = l] :
          f \in FinancialOptions, l \in SlaOptions},
      {[BlankAnalysis EXCEPT !.parties = q] : q \in PartiesOptions},
      {FallbackAnalysis, ChunkAnalysisA, ChunkAnalysisB} }

MergeInputs == UNION {SeqsUpTo(S, MaxAnalyses) : S \in AnalysisSets}

InitMerge ==
    /\ analyses \in MergeInputs
    /\ combined = EmptyCombined
    /\ merge_pc = "ready"
    /\ ScoreIdle
    /\ ChunkIdle
    /\ ParseIdle
    /\ ApiIdle
    /\ ExtractIdle

NextMerge == _combine_analyses

SpecMerge == InitMerge /\ [][NextMerge]_vars

(***************************************************************************)
(* Properties of the merge (checked under SpecMerge)                       *)
(***************************************************************************)
MergedCategories == {"financial_details", "payment_terms", "sla"}
MergeKeys ==
    {"banking_details", "payment_terms", "currency", "total_contract_value", "support_terms"}

\* the analyses, by index, that set key of category cat to a non-falsy value
Setters(cat, key) ==
    {i \in DOMAIN analyses :
        /\ analyses[i][cat].tag = DICT
        /\ key \in DOMAIN analyses[i][cat].d
        /\ analyses[i][cat].d[key] \notin {NONE, ""}}

Least(S) == CHOOSE i \in S : \A j \in S : i <= j

\* C8: for financial_details, payment_terms and sla, every key of the merged dict
\* holds the value of the first analysis, in input order, that sets it to a non-falsy
\* value, and a key no analysis sets is not in the merged dict.
C8_FirstWins ==
    merge_pc = "done" =>
        \A cat \in MergedCategories : \A key \in MergeKeys :
            IF Setters(cat, key) = {}
            THEN key \notin DOMAIN combined[cat]
            ELSE /\ key \in DOMAIN combined[cat]
                 /\ combined[cat][key] = analyses[Least(Setters(cat, key))][cat].d[key]

\* [B, A] with B.banking_details = "Y", A.banking_details = "X" and payment_terms set
\* only by A has merged to "Y" and A's payment_terms
C8_Witness ==
    /\ merge_pc = "done"
    /\ Len(analyses) = 2
    /\ analyses[1].payment_terms = DictCat(Entry("banking_details", "Y"))
    /\ analyses[2].payment_terms =
          DictCat(Both(Entry("banking_details", "X"), Entry("payment_terms", "Net 30")))
    /\ combined.payment_terms =
          Both(Entry("banking_details", "Y"), Entry("payment_terms", "Net 30"))

\* names equal ignoring case
C9_SameName(a, b) ==
    \/ a = b
    \/ {a, b} \subseteq {"Acme Corp", "ACME CORP", "acme corp"}
    \/ {a, b} \subseteq {"Beta LLC", "BETA LLC"}

\* the positions, in the concatenation of the input parties, of the first party of
\* each name
C9_FirstOccurrences ==
    LET all == AllParties(analyses)
    IN  {k \in DOMAIN all :
            /\ all[k].name \notin {"", MISSING}
            /\ \A j \in 1..(k - 1) : ~C9_SameName(all[j].name, all[k].name)}

\* C9: the merged parties hold no two names equal ignoring case, and are exactly
\* the first party of each name, in first-seen order.
C9_PartiesDeduped ==
    merge_pc = "done" =>
        LET ps == combined.parties
            all == AllParties(analyses)
            K == C9_FirstOccurrences
        IN  /\ \A i, j \in DOMAIN ps : i # j => ~C9_SameName(ps[i].name, ps[j].name)
            /\ Len(ps) = Cardinality(K)
            /\ \A m \in DOMAIN ps :
                  ps[m] = all[CHOOSE k \in K : Cardinality({x \in K : x <= k}) = m]

\* "Acme Corp" in one analysis and "ACME CORP" in a later one have merged into the
\* first entry, behind an earlier "Beta LLC"
C9_Witness ==
    /\ merge_pc = "done"
    /\ Len(analyses) = 3
    /\ analyses[1].parties = ListOf(<<MergeParty("Beta LLC", "a@acme.com")>>)
    /\ analyses[2].parties = ListOf(<<MergeParty("Acme Corp", "a@acme.com")>>)
    /\ analyses[3].parties = ListOf(<<MergeParty("ACME CORP", "legal@acme.com")>>)
    /\ combined.parties =
          <<MergeParty("Beta LLC", "a@acme.com"), MergeParty("Acme Corp", "a@acme.com")>>

(***************************************************************************)
(* The texts and parameters the chunker is run on: every text up to        *)
(* MaxTextLen under every small (chunk_size, overlap), and texts around    *)
(* the chunk boundaries under the extractor's own 8000 / 1000.             *)
(***************************************************************************)
MaxTextLen   == 7
MaxChunkSize == 4

SmallChunkInputs ==
    {[text |-> [len |-> n, terms |-> T], chunk_size |-> cs, overlap |-> ov] :
        n \in 0..MaxTextLen, T \in SUBSET (0..(MaxTextLen - 1)),
        cs \in 1..MaxChunkSize, ov \in 0..(MaxChunkSize - 1)}

DefaultChunkInputs ==
    {[text |-> [len |-> n, terms |-> T], chunk_size |-> ChunkSize, overlap |-> Overlap] :
        n \in {6000, 7500, 8000, 8001, 8500, 15500},
        T \in SUBSET {7800, 7801, 7900, 7999, 8000, 14900}}

ChunkInputs ==
    {x \in SmallChunkInputs \cup DefaultChunkInputs :
        /\ x.overlap < x.chunk_size
        /\ \A i \in x.text.terms : i < x.text.len}

InitChunk ==
    /\ \E x \in ChunkInputs :
          /\ text = x.text
          /\ chunk_size = x.chunk_size
          /\ overlap = x.overlap
    /\ start = 0
    /\ chunks = <<>>
    /\ chunk_pc = "loop"
    /\ ScoreIdle
    /\ MergeIdle
    /\ ParseIdle
    /\ ApiIdle
    /\ ExtractIdle

NextChunk == _split_text_into_chunks

SpecChunk == InitChunk /\ [][NextChunk]_vars

(***************************************************************************)
(* Properties of the chunker (checked under SpecChunk)                     *)
(***************************************************************************)
\* the model's cap on the number of chunks is never what ends a run
NeverCapped == chunk_pc # "capped"

\* C10: the chunks a finished run returns cover the text without a gap: the first
\* starts at index 0, each next one starts at or before the end of the one before
\* it, the last one ends at the end of the text, and every index is in a chunk.
C10_ChunksCoverText ==
    chunk_pc = "done" =>
        IF text.len = 0 THEN chunks = <<>>
        ELSE /\ chunks # <<>>
             /\ chunks[1].lo = 0
             /\ \A k \in 1..(Len(chunks) - 1) : chunks[k + 1].lo <= chunks[k].hi
             /\ chunks[Len(chunks)].hi = text.len
             /\ \A p \in 0..(text.len - 1) :
                   \E k \in DOMAIN chunks : chunks[k].lo <= p /\ p < chunks[k].hi

\* a finished run of three or more overlapping chunks, one of them cut back to a
\* sentence terminator
C10_Witness ==
    /\ chunk_pc = "done"
    /\ overlap > 0
    /\ Len(chunks) >= 3
    /\ \E k \in 1..(Len(chunks) - 1) :
          /\ chunks[k].hi - chunks[k].lo < chunk_size
          /\ (chunks[k].hi - 1) \in text.terms

(***************************************************************************)
(* The while loop under a scheduler that keeps running it: the function is *)
(* a plain sequential loop, so a pass that can be taken is taken.          *)
(***************************************************************************)
FairSpecChunk == InitChunk /\ [][NextChunk]_vars /\ WF_vars(NextChunk)

\* C11: for every text and every (chunk_size, overlap) with 0 <= overlap <
\* chunk_size the loop of _split_text_into_chunks terminates: every run reaches
\* the return statement with a finite list of chunks.
C11_LoopTerminates == <>(chunk_pc = "done")

\* C12: a non-empty text shorter than chunk_size comes back as exactly one
\* chunk, the whole text.
C12_ShortTextOneChunk ==
    (chunk_pc = "done" /\ 0 < text.len /\ text.len < chunk_size) =>
        chunks = <<[lo |-> 0, hi |-> text.len]>>

(***************************************************************************)
(* The files, analyzer settings and model responses the analyzer and the   *)
(* parser are run on                                                       *)
(***************************************************************************)
Files ==
    [primary : {"ok", "fails"}, pypdf2 : {"ok", "raises"}, type : {NONE, "Service Agreement"}]

\* the dicts with the key k bound to a value of S, and the dict without it
Opt(k, S) == {EmptyDict} \cup {[x \in {k} |-> v] : v \in S}

\* JSON objects as the model may answer them: keys missing, values of the wrong
\* type, lists with items of the wrong type
AnalysisObjects ==
    {Both(Both(Both(p, f), Both(s, a)), Both(Both(c, q), k)) :
        p \in Opt("parties", {JList(<<"dict", "str">>), JStr("n/a")}),
        f \in Opt("financial_details", {JList(<<>>)}),
        s \in Opt("summary", {JNull}),
        a \in Opt("account_info", {JDict(<<"str">>)}),
        c \in Opt("contract_type", {JStr("Service Agreement"), JList(<<"str">>)}),
        q \in Opt("confidence_scores", {JDict(<<"num">>), JDict(<<"num", "null">>)}),
        k \in Opt("risk_factors", {JList(<<"str">>), JList(<<"dict">>)})}

\* an answer that follows the schema of the prompt (lines 92-203)
SchemaObject ==
    [k \in {"parties", "account_info", "financial_details", "payment_terms",
            "revenue_classification", "sla", "important_dates", "key_terms",
            "main_obligations", "risk_factors", "compliance_issues",
            "contract_start_date", "contract_end_date", "contract_type",
            "confidence_scores", "summary"} |->
        CASE k = "parties" -> JList(<<"dict", "dict">>)
          [] k \in {"key_terms", "main_obligations", "risk_factors", "compliance_issues"}
               -> JList(<<"str">>)
          [] k \in {"contract_start_date", "contract_end_date"} -> JStr("2024-01-01")
          [] k = "contract_type" -> JStr("Service Agreement")
          [] k = "confidence_scores" -> JDict(<<"num">>)
          [] OTHER -> JDict(<<"str">>)]

Answer(open, close, kind, object) ==
    [call |-> "ok", open |-> open, close |-> close, kind |-> kind, object |-> object]

\* kind "text": not JSON; "other": JSON that is not an object (null, a number, a
\* string, a list); "object": a JSON object
Responses ==
    {NoResponse}
    \cup {Answer(o, c, k, EmptyDict) :
            o \in {"", "fence_json", "fence"}, c \in BOOLEAN, k \in {"text", "other"}}
    \cup {Answer(o, c, "object", SchemaObject) :
            o \in {"", "fence_json", "fence"}, c \in BOOLEAN}
    \cup {Answer("", FALSE, "object", x) : x \in AnalysisObjects}

InitParse ==
    /\ file \in Files
    /\ enabled \in BOOLEAN
    /\ response \in Responses
    /\ analysis = EmptyDict
    /\ analyze_pc = "ready"
    /\ parse_ret = NoContractData
    /\ parse_pc = "ready"
    /\ ScoreIdle
    /\ MergeIdle
    /\ ChunkIdle
    /\ ApiIdle
    /\ ExtractIdle

NextParse ==
    \/ analyze_contract
    \/ parse_contract

SpecParse == InitParse /\ [][NextParse]_vars

(***************************************************************************)
(* Properties of the analyzer and the parser (checked under SpecParse)     *)
(***************************************************************************)
\* the fixed top-level keys of an analysis
FixedKeys ==
    {"parties", "account_info", "financial_details", "payment_terms",
     "revenue_classification", "sla", "important_dates", "key_terms", "risk_factors",
     "compliance_issues", "contract_type", "confidence_scores", "summary"}

\* the call failed: no credential, the model call raised, the answer is not JSON,
\* or it is JSON but not an object
AnalysisFailed ==
    \/ ~enabled
    \/ response.call = "raises"
    \/ response.open = "fence"
    \/ response.kind \in {"text", "other"}

\* C13: analyze_contract never raises, and on every failure it returns the empty
\* analysis, which has every fixed top-level key.
C13_FailureReturnsEmptyAnalysis ==
    /\ analyze_pc # "raised"
    /\ (analyze_pc = "returned" /\ AnalysisFailed) =>
          /\ analysis = _get_fallback_data
          /\ FixedKeys \subseteq DOMAIN analysis

\* the explicit failed marker of a ContractData
FailedNotes == {"Manual extraction failed", "Contract parsing failed, using fallback data"}
FailedMarker(cd) ==
    /\ cd.contract_type = "Unknown"
    /\ \E i \in DOMAIN cd.processing_notes : cd.processing_notes[i] \in FailedNotes

\* C14: parse_contract never propagates an error, and returns the failed marker
\* only when every extraction pathway has failed.
C14_ParseNeverPropagates ==
    /\ parse_pc # "raised"
    /\ (parse_pc = "returned" /\ FailedMarker(parse_ret)) =>
          /\ EnhancedParse(file, enabled, response) = Raised
          /\ ParseBasic(file) = Raised

\* the semantic extractor is unavailable: every call returns the empty analysis
AIUnavailable == ~enabled \/ response.call = "raises"

FallbackNotes == FailedNotes \cup {"Manual extraction completed"}

\* C15: with the AI unavailable, parse_contract returns a ContractData of
\* contract_type "Unknown" whose processing_notes say that a fallback was used
\* and do not say that the AI analysis completed.
C15_FallbackNoted ==
    (parse_pc = "returned" /\ AIUnavailable) =>
        /\ parse_ret.contract_type = "Unknown"
        /\ \E i \in DOMAIN parse_ret.processing_notes :
              parse_ret.processing_notes[i] \in FallbackNotes
        /\ \A i \in DOMAIN parse_ret.processing_notes :
              parse_ret.processing_notes[i] # "AI-powered analysis completed using Gemini"

(***************************************************************************)
(* The application: requests arrive in any order while the task runs       *)
(***************************************************************************)
InitApi ==
    /\ ApiIdle
    /\ ExtractIdle
    /\ ScoreIdle
    /\ MergeIdle
    /\ ChunkIdle
    /\ ParseIdle

NextApi ==
    \/ upload_contract
    \/ get_contract_status
    \/ get_contract_data
    \/ delete_contract_find
    \/ delete_contract
    \/ process_contract

SpecApi == InitApi /\ [][NextApi]_vars

\* the event loop runs a task that can take a step, and finishes a request it
\* has begun
FairSpecApi ==
    /\ InitApi /\ [][NextApi]_vars
    /\ WF_vars(process_contract)
    /\ WF_vars(delete_contract)

(***************************************************************************)
(* Properties of the application (checked under SpecApi and FairSpecApi)   *)
(***************************************************************************)
\* C16: an upload whose file name does not end in .pdf is answered with status
\* 400 and detail "Only PDF files are supported".
C16_NonPdfRejected400 ==
    (http.op = "upload_contract" /\ ~EndsWithPdf(http.arg)) =>
        /\ http.status_code = 400
        /\ http.detail = "Only PDF files are supported"

\* C17: a contract whose status is completed has parsed_data, score and gaps
\* stored and progress 100, in every state; and GET /contracts/{id} answers 200
\* with the parsed data exactly when the status is completed, and 400 "Contract
\* processing not completed" for a record in any other status.
C17_CompletedHasResults ==
    /\ []((db.exists /\ db.status = COMPLETED) =>
             /\ db.parsed_data = "ContractData"
             /\ db.score = "score"
             /\ db.gaps = "gaps"
             /\ db.progress = 100)
    /\ [][(http'.n # http.n /\ http'.op = "get_contract_data") =>
             /\ http'.status_code = 200 <=> (db.exists /\ db.status = COMPLETED)
             /\ http'.status_code = 200 => http'.detail = "ContractData"
             /\ (db.exists /\ db.status # COMPLETED) =>
                   /\ http'.status_code = 400
                   /\ http'.detail = "Contract processing not completed"]_vars

\* the parsed data of a completed contract has been served
C17_Witness ==
    /\ http.op = "get_contract_data"
    /\ http.status_code = 200
    /\ db.exists
    /\ db.status = COMPLETED

\* the transitions of the status state machine
StatusTransitions ==
    {<<PENDING, PROCESSING>>, <<PROCESSING, COMPLETED>>, <<PROCESSING, FAILED>>,
     <<PROCESSING, PENDING>>}

\* C18: a record is created as pending, and every change of its status is one
\* of pending -> processing, processing -> completed, processing -> failed,
\* processing -> pending; nothing leaves completed or failed.
C18_StatusMachine ==
    [][/\ (~db.exists /\ db'.exists) => db'.status = PENDING
       /\ (db.exists /\ db'.exists /\ db'.status # db.status) =>
             <<db.status, db'.status>> \in StatusTransitions]_vars

\* a contract that failed after its retries were used up
C18_Witness ==
    /\ db.exists
    /\ db.status = FAILED
    /\ db.retry_count = MaxRetries
    /\ task_pc = "done"

\* the record has reached a final status, or is gone
Settled == ~db.exists \/ db.status \in {COMPLETED, FAILED}

\* C19: a retry happens only on an error whose message holds "timeout" and with
\* retry_count < 3, and adds one to retry_count, which never exceeds 3; any other
\* error makes the record failed; and an uploaded contract is eventually
\* completed or failed, after at most 4 calls of process_contract.
C19_RetryBounded ==
    /\ [](attempts <= MaxRetries + 1 /\ db.retry_count <= MaxRetries)
    /\ [][(db.exists /\ db'.exists /\ db.status = PROCESSING /\ db'.status = PENDING) =>
             /\ err = "timeout"
             /\ RetryCount(db) < MaxRetries
             /\ db'.retry_count = RetryCount(db) + 1]_vars
    /\ [][(task_pc = "except" /\ task_pc' # "except" /\ err = "other") =>
             /\ task_pc' = "done"
             /\ db.exists => db'.status = FAILED]_vars
    /\ (task_pc = "start") ~> Settled

\* C20: the contact_information score is 25 / 15 / 10 for the account's contact
\* email, phone and technical support contact, plus 50 when at least one party
\* has an email or a phone, however many parties have them.
C20_ContactScoreFormula ==
    (calc_calls > 0 /\ scores.contact_information >= 0) =>
        LET a  == parsed_data.account_info
            ps == parsed_data.parties.items
        IN  scores.contact_information =
                  (IF a.tag = DICT /\ a.contact_email = VAL THEN 25 ELSE 0)
                + (IF a.tag = DICT /\ a.contact_phone = VAL THEN 15 ELSE 0)
                + (IF a.tag = DICT /\ a.technical_support_contact = VAL THEN 10 ELSE 0)
                + (IF \E i \in DOMAIN ps : ps[i].email = VAL \/ ps[i].phone = VAL
                   THEN 50 ELSE 0)

\* two parties with contact details, one of them with both an email and a phone,
\* and no account contact: the score is 50
C20_Witness ==
    /\ calc_calls > 0
    /\ scores.contact_information = 50
    /\ \E i, j \in DOMAIN parsed_data.parties.items :
          /\ i # j
          /\ parsed_data.parties.items[i].email = VAL
          /\ parsed_data.parties.items[i].phone = VAL
          /\ parsed_data.parties.items[j].email = VAL

(***************************************************************************)
(* direct_gemini_extractor.py: DirectGeminiExtractor.extract_contract_data *)
(* with _process_direct_text, _process_long_text, _analyze_chunk and       *)
(* _convert_to_contract_data                                               *)
(*                                                                         *)
(* The text is seen through its chunks: per chunk, what analyze_contract   *)
(* does when called on it.  No chunk at all is the empty text.  The        *)
(* ContractData that comes back is kept as its .dict(), the mapping the    *)
(* scoring engine is then called with (main.py lines 327-330).             *)
(***************************************************************************)
\* _analyze_chunk (lines 169-197): the dict analyze_contract returned, or {} from
\* the except branch
_analyze_chunk(o) == IF o.kind = "raised" THEN BlankAnalysis ELSE o.analysis

\* `if analysis:` (line 128): a dict is truthy unless it is empty
AnalysisTruthy(a) == a # BlankAnalysis

\* the combined dict, as the ai_analysis _convert_to_contract_data reads
AsAnalysis(c) ==
    [parties |-> ListOf(c.parties), financial_details |-> DictCat(c.financial_details),
     payment_terms |-> DictCat(c.payment_terms), sla |-> DictCat(c.sla),
     contract_dates |-> DictCat(c.contract_dates), important_dates |-> NoCat,
     key_terms |-> ListOf(c.key_terms), risk_factors |-> ListOf(c.risk_factors),
     compliance_issues |-> ListOf(c.compliance_issues),
     confidence_scores |-> [tag |-> DICT, has_overall |-> TRUE, overall |-> 0]]

\* ai_analysis.get(cat, {})
CatDict(a, cat) == IF a[cat].tag = DICT THEN a[cat].d ELSE EmptyDict

\* d.get(key) or <a falsy default>, as the scorer will see it
OrFalsy(d, key) == IF key \in DOMAIN d /\ ValueTruthy(d[key]) THEN VAL ELSE FALSY

\* d.get(key, ''), as the scorer will see it
GetOrEmpty(d, key) ==
    IF key \notin DOMAIN d THEN FALSY
    ELSE IF ValueTruthy(d[key]) THEN VAL
    ELSE IF d[key] = NONE THEN NONE ELSE FALSY

\* d.get(key, ''), the string
GetString(d, key) == IF key \in DOMAIN d THEN d[key] ELSE ""

\* Party(...) of lines 282-294, as a dict: role falls back to 'unknown', fields
\* the analysis lacks are '', registration_number is never passed
ConvertedParty(p) ==
    [name                |-> IF ValueTruthy(NameOf(p)) THEN VAL ELSE FALSY,
     role                |-> VAL,
     legal_entity        |-> FALSY,
     email               |-> IF ValueTruthy(p.email) THEN VAL ELSE FALSY,
     phone               |-> FALSY,
     address             |-> FALSY,
     registration_number |-> NONE]

\* What makes the try block of _convert_to_contract_data raise: .get on a category
\* that is None, and Party(name=None), which the model rejects.
ConvertRaises(a) ==
    \/ \E cat \in {"financial_details", "payment_terms", "sla", "contract_dates"} :
          a[cat].tag = NONE
    \/ \E i \in DOMAIN a.parties.items : a.parties.items[i].name = NONE

\* ContractData(...).dict() of lines 342-362.  The analyses of the model carry no
\* line_items, due_dates, payment_methods or performance_metrics: `or []`.
ConvertedDict(a) ==
    LET fd == CatDict(a, "financial_details")
        pt == CatDict(a, "payment_terms")
        sl == CatDict(a, "sla")
        dt == CatDict(a, "contract_dates")
    IN  [parties |-> PartiesList([i \in DOMAIN a.parties.items |->
                                     ConvertedParty(a.parties.items[i])]),
         account_info |-> Account(NONE, NONE, NONE),
         financial_details |->
             Fin(OrFalsy(fd, "total_contract_value"), <<>>, VAL,
                 OrFalsy(fd, "tax_amount"), OrFalsy(fd, "additional_fees")),
         payment_terms |->
             Pay(OrFalsy(pt, "payment_terms"), OrFalsy(pt, "payment_schedule"), <<>>, <<>>,
                 OrFalsy(pt, "banking_details")),
         revenue_classification |-> Revenue(VAL),
         sla |-> Sla(<<>>, <<>>, OrFalsy(sl, "support_terms"), OrFalsy(sl, "maintenance_terms")),
         contract_start_date |-> GetOrEmpty(dt, "start_date"),
         contract_end_date |-> GetOrEmpty(dt, "end_date")]

\* DirectGeminiExtractor._get_fallback_data (lines 450-486), as a dict
FallbackDict ==
    [parties |-> PartiesList(<<>>),
     account_info |-> Account(NONE, NONE, NONE),
     financial_details |-> Fin(NONE, <<>>, NONE, NONE, NONE),
     payment_terms |-> Pay(NONE, NONE, <<>>, <<>>, NONE),
     revenue_classification |-> Revenue(VAL),
     sla |-> Sla(<<>>, <<>>, NONE, NONE),
     contract_start_date |-> NONE,
     contract_end_date |-> NONE]

FallbackReturn ==
    [fallback |-> TRUE, contract_start_date |-> "none", contract_end_date |-> "none",
     contract_type |-> "Unknown",
     processing_notes |-> <<"Direct Gemini extraction failed, using fallback data">>]

ConvertedReturn(a) ==
    [fallback |-> FALSE,
     contract_start_date |-> GetString(CatDict(a, "contract_dates"), "start_date"),
     contract_end_date |-> GetString(CatDict(a, "contract_dates"), "end_date"),
     contract_type |-> "Service Agreement",
     processing_notes |-> <<"Direct Gemini AI extraction completed">>]

\* _convert_to_contract_data (lines 276-366) on ai_analysis a: the dict of the
\* ContractData it returns, and what else of it the model keeps
Convert(a) ==
    IF ConvertRaises(a)
    THEN [data |-> FallbackDict, ret |-> FallbackReturn]
    ELSE [data |-> ConvertedDict(a), ret |-> ConvertedReturn(a)]

\* extract_contract_data (lines 31-52) up to the first chunk of a long text; a short
\* text goes through _process_direct_text (lines 80-113) in one step.
extract_contract_data ==
    /\ extract_pc = "ready"
    /\ IF chunk_outcomes = <<>>
       THEN /\ parsed_data' = FallbackDict
            /\ extract_ret' = FallbackReturn
            /\ extract_pc' = "returned"
       ELSE IF direct
       THEN LET o == chunk_outcomes[1]
                r == IF o.kind = "raised"
                     THEN [data |-> FallbackDict, ret |-> FallbackReturn]
                     ELSE Convert(o.analysis)
            IN  /\ parsed_data' = r.data
                /\ extract_ret' = r.ret
                /\ extract_pc' = "returned"
       ELSE /\ extract_pc' = "chunks"
            /\ UNCHANGED <<parsed_data, extract_ret>>
    /\ UNCHANGED <<chunk_outcomes, direct, chunk_i>>
    /\ UNCHANGED <<weights, scores, calc_ret, first_ret, calc_calls, bd_ret, bd_calls>>
    /\ UNCHANGED <<mergeVars, chunkVars, parseVars, apiVars>>

\* the loop of _process_long_text with every analysis put in front of the list
_process_long_text_Prepends ==
    /\ extract_pc = "chunks"
    /\ chunk_i < Len(chunk_outcomes)
    /\ LET a == _analyze_chunk(chunk_outcomes[chunk_i + 1])
       IN  analyses' = IF AnalysisTruthy(a) THEN <<a>> \o analyses ELSE analyses
    /\ chunk_i' = chunk_i + 1
    /\ merge_pc' = IF chunk_i + 1 = Len(chunk_outcomes) THEN "ready" ELSE merge_pc
    /\ UNCHANGED <<combined, chunk_outcomes, direct, extract_pc, extract_ret>>
    /\ UNCHANGED <<scoreVars, chunkVars, parseVars, apiVars>>

\* One pass of the loop of _process_long_text (lines 124-131); after the last pass
\* _combine_analyses is called on all_analyses (line 134).
_process_long_text ==
    /\ extract_pc = "chunks"
    /\ chunk_i < Len(chunk_outcomes)
    /\ LET a == _analyze_chunk(chunk_outcomes[chunk_i + 1])
       IN  analyses' = IF AnalysisTruthy(a) THEN Append(analyses, a) ELSE analyses
    /\ chunk_i' = chunk_i + 1
    /\ merge_pc' = IF chunk_i + 1 = Len(chunk_outcomes) THEN "ready" ELSE merge_pc
    /\ UNCHANGED <<combined, chunk_outcomes, direct, extract_pc, extract_ret>>
    /\ UNCHANGED <<scoreVars, chunkVars, parseVars, apiVars>>

\* lines 136-141: the conversion of the combined analysis, or the fallback data
\* when _combine_analyses raised
_convert_to_contract_data ==
    /\ extract_pc = "chunks"
    /\ merge_pc \in {"done", "raised"}
    /\ LET r == IF merge_pc = "raised"
                THEN [data |-> FallbackDict, ret |-> FallbackReturn]
                ELSE Convert(AsAnalysis(combined))
       IN  /\ parsed_data' = r.data
           /\ extract_ret' = r.ret
    /\ extract_pc' = "returned"
    /\ UNCHANGED <<chunk_outcomes, direct, chunk_i>>
    /\ UNCHANGED <<weights, scores, calc_ret, first_ret, calc_calls, bd_ret, bd_calls>>
    /\ UNCHANGED <<mergeVars, chunkVars, parseVars, apiVars>>

\* main.py lines 327-330: the returned ContractData is scored
score_extracted ==
    /\ extract_pc = "returned"
    /\ calculate_score

(***************************************************************************)
(* The texts extract_contract_data is run on                               *)
(***************************************************************************)
\* ChunkAnalysisB with an sla the merge can read
ChunkAnalysisC == [ChunkAnalysisB EXCEPT !.sla = DictCat(Entry("support_terms", "9-5"))]

\* an analysis in the extractor's own schema, which names the dates contract_dates
ChunkAnalysisD ==
    [BlankAnalysis EXCEPT !.contract_dates =
        DictCat(Both(Entry("start_date", "2024-03-01"), Entry("end_date", "2025-03-01")))]

ChunkOutcomes ==
    {[kind |-> "analysis", analysis |-> a] :
        a \in {FallbackAnalysis, ChunkAnalysisA, ChunkAnalysisB, ChunkAnalysisC, ChunkAnalysisD}}
    \cup {[kind |-> "raised", analysis |-> BlankAnalysis]}

InitExtract ==
    /\ chunk_outcomes \in SeqsUpTo(ChunkOutcomes, MaxAnalyses)
    /\ direct \in BOOLEAN
    /\ direct => Len(chunk_outcomes) = 1
    /\ chunk_i = 0
    /\ extract_pc = "ready"
    /\ extract_ret = NoExtract
    /\ analyses = <<>>
    /\ combined = EmptyCombined
    /\ merge_pc = "idle"
    /\ ScoreIdle
    /\ ChunkIdle
    /\ ParseIdle
    /\ ApiIdle

NextExtract ==
    \/ extract_contract_data
    \/ _process_long_text
    \/ _combine_analyses
    \/ _convert_to_contract_data
    \/ score_extracted

SpecExtract == InitExtract /\ [][NextExtract]_vars

(***************************************************************************)
(* Properties of the extractor (checked under SpecExtract)                 *)
(***************************************************************************)
\* a chunk whose analysis failed: analyze_contract raised, or gave the empty analysis
ChunkFailed(o) == o.kind = "raised" \/ o.analysis = FallbackAnalysis
ChunkSucceeded(o) == ~ChunkFailed(o)
NotEmptyAnalysis(a) == a # FallbackAnalysis

\* the analyses of the chunks that succeeded, in chunk order
SucceededAnalyses ==
    LET ok == SelectSeq(chunk_outcomes, ChunkSucceeded)
    IN  [i \in DOMAIN ok |-> ok[i].analysis]

\* C21: in _process_long_text every chunk is analysed whether or not an earlier
\* one failed, the analyses of the chunks that succeeded reach _combine_analyses in
\* chunk order, and the merged result is what the merge of those analyses alone
\* gives: a failed chunk adds nothing to it and does not make the merge fail.
C21_FailedChunksSkipped ==
    merge_pc \in {"ready", "done", "raised"} =>
        /\ chunk_i = Len(chunk_outcomes)
        /\ SelectSeq(analyses, NotEmptyAnalysis) = SucceededAnalyses
        /\ merge_pc = "raised" => CombineRaises(SucceededAnalyses)
        /\ merge_pc = "done" => combined = CombineResult(SucceededAnalyses)

\* three chunks, the second failed, the first and the third disagreeing on the
\* currency: the merged result has the first chunk's
C21_Witness ==
    /\ merge_pc = "done"
    /\ Len(chunk_outcomes) = 3
    /\ chunk_outcomes[1] = [kind |-> "analysis", analysis |-> ChunkAnalysisA]
    /\ ChunkFailed(chunk_outcomes[2])
    /\ chunk_outcomes[3] = [kind |-> "analysis", analysis |-> ChunkAnalysisC]
    /\ combined.financial_details["currency"] = "USD"
    /\ combined.payment_terms["banking_details"] = "X"

\* the analyses, by index, that have confidence_scores.overall
WithOverall ==
    {i \in DOMAIN analyses :
        analyses[i].confidence_scores.tag = DICT /\ analyses[i].confidence_scores.has_overall}

\* C22: confidence_scores.overall of the merged result is the mean of the overall
\* scores of exactly the analyses that have one (their sum in hundredths over
\* 100 times their number), and 0.8 when no analysis has one, the empty list
\* of analyses included.
C22_ConfidenceIsMean ==
    merge_pc = "done" =>
        IF WithOverall = {}
        THEN combined.confidence_scores = [num |-> 80, den |-> 100]
        ELSE /\ combined.confidence_scores.den = 100 * Cardinality(WithOverall)
             /\ combined.confidence_scores.num =
                   SumSeq([i \in DOMAIN analyses |->
                              IF i \in WithOverall
                              THEN analyses[i].confidence_scores.overall ELSE 0])

\* scores 0.9 and 0.6 beside an analysis without a score have merged to 1.5 / 2
C22_Witness ==
    /\ merge_pc = "done"
    /\ Len(analyses) = 3
    /\ Cardinality(WithOverall) = 2
    /\ combined.confidence_scores = [num |-> 150, den |-> 200]

\* no analysis reached the merge, and the merged confidence is 0.8
C22_WitnessDefault ==
    /\ merge_pc = "done"
    /\ analyses = <<>>
    /\ combined.confidence_scores = [num |-> 80, den |-> 100]

(***************************************************************************)
(* Properties of one pass of the chunker's loop (checked under SpecChunk)  *)
(***************************************************************************)
\* the pass of the loop that appends a chunk
ChunkAppended == chunk_pc = "loop" /\ Len(chunks') = Len(chunks) + 1

\* end as the pass left it: start = end - self.overlap
EndOfPass == start' + overlap

\* C23: a chunk whose naive cut point start + chunk_size lies before the end of
\* the text ends right after the terminator closest to the cut point among those
\* within chunk_size - 200 characters before it, and at the cut point when there
\* is none.
C23_EndsAtSentenceBoundary ==
    [][(ChunkAppended /\ start + chunk_size < text.len) =>
          LET W == {i \in text.terms : start <= i /\ i < start + chunk_size
                                       /\ start + chunk_size - i <= chunk_size - SentenceWindow}
          IN  EndOfPass = IF W # {} THEN MaxOf(W) + 1 ELSE start + chunk_size]_vars

\* the indices i with max(start + chunk_size - 200, start) < i <= start + chunk_size
\* at which text[i] is a terminator (a negative i counts from the end of the text)
C23_ScannedTerminators ==
    {i \in (Max(start + chunk_size - SentenceWindow, start) + 1)..(start + chunk_size) :
        (IF i >= 0 THEN i ELSE text.len + i) \in text.terms}

\* C23, as the code has it: the scan covers the last 200 indices up to and
\* including the naive cut point itself (all of the chunk when chunk_size < 200);
\* the chunk ends right after the highest of them that holds a terminator, and at
\* the naive cut point when none does or when the cut point is not before the end
\* of the text.
C23_EndsAfterLastScannedTerminator ==
    [][ChunkAppended =>
          EndOfPass = IF start + chunk_size < text.len /\ C23_ScannedTerminators # {}
                      THEN MaxOf(C23_ScannedTerminators) + 1
                      ELSE start + chunk_size]_vars

\* with terminators at 7800 and 7900 the first chunk of 8000/1000 ends behind 7900
C23_Witness ==
    /\ chunk_pc = "done"
    /\ chunk_size = ChunkSize
    /\ text.terms = {7800, 7900}
    /\ text.len > ChunkSize
    /\ chunks[1] = [lo |-> 0, hi |-> 7901]

(***************************************************************************)
(* Properties of the dates (checked under SpecExtract)                     *)
(***************************************************************************)
\* the date an analysis carries under key, in important_dates or contract_dates
DateOf(a, key) ==
    IF a.important_dates.tag = DICT /\ key \in DOMAIN a.important_dates.d
    THEN a.important_dates.d[key]
    ELSE IF a.contract_dates.tag = DICT /\ key \in DOMAIN a.contract_dates.d
    THEN a.contract_dates.d[key]
    ELSE ""

\* the analyses, by index, that carry a non-empty date under key
DateSetters(key) == {i \in DOMAIN analyses : DateOf(analyses[i], key) \notin {"", NONE}}

\* the same, looking at contract_dates only
ContractDateSetters(key) ==
    {i \in DOMAIN analyses :
        /\ analyses[i].contract_dates.tag = DICT
        /\ key \in DOMAIN analyses[i].contract_dates.d
        /\ analyses[i].contract_dates.d[key] \notin {"", NONE}}

\* C24: a non-empty start_date or end_date that an analysis carries under
\* important_dates or contract_dates is in the merged contract_dates with the value
\* of the first analysis that sets it, and is the contract_start_date /
\* contract_end_date of the ContractData built from the merged result.
C24_DatesMergedFirstWins ==
    (merge_pc = "done" /\ extract_pc = "returned" /\ ~extract_ret.fallback) =>
        /\ DateSetters("start_date") # {} =>
              /\ "start_date" \in DOMAIN combined.contract_dates
              /\ combined.contract_dates["start_date"] =
                    DateOf(analyses[Least(DateSetters("start_date"))], "start_date")
              /\ extract_ret.contract_start_date = combined.contract_dates["start_date"]
        /\ DateSetters("end_date") # {} =>
              /\ "end_date" \in DOMAIN combined.contract_dates
              /\ combined.contract_dates["end_date"] =
                    DateOf(analyses[Least(DateSetters("end_date"))], "end_date")
              /\ extract_ret.contract_end_date = combined.contract_dates["end_date"]

\* what does hold: the dates under contract_dates are merged first-wins and reach
\* the ContractData
ContractDatesMerged ==
    (merge_pc = "done" /\ extract_pc = "returned" /\ ~extract_ret.fallback) =>
        \A key \in {"start_date", "end_date"} :
            IF ContractDateSetters(key) = {}
            THEN key \notin DOMAIN combined.contract_dates
            ELSE combined.contract_dates[key] =
                    analyses[Least(ContractDateSetters(key))].contract_dates.d[key]

(***************************************************************************)
(* Monotonicity of the scores (checked under Spec)                         *)
(***************************************************************************)
\* The inputs that differ from pd in one thing: a field that was absent, None or
\* falsy is now truthy, a line item is added, or a party is added.
MoreData(pd) ==
    (IF pd.financial_details.tag = DICT
     THEN {[pd EXCEPT !.financial_details[f] = VAL] :
              f \in {g \in {"total_contract_value", "currency", "tax_amount", "additional_fees"} :
                        pd.financial_details[g] # VAL}}
          \cup {[pd EXCEPT !.financial_details.line_items = Append(@, it)] :
                   it \in {DetailedItem, BareItem}}
     ELSE {})
    \cup
    (IF pd.parties.tag = LIST
     THEN {[pd EXCEPT !.parties.items = Append(@, p)] : p \in PartyKinds}
          \cup {[pd EXCEPT !.parties.items[i][f] = VAL] :
                   i \in DOMAIN pd.parties.items,
                   f \in {g \in PartyFields : \E j \in DOMAIN pd.parties.items :
                                                 pd.parties.items[j][g] # VAL}}
     ELSE {})
    \cup
    (IF pd.payment_terms.tag = DICT
     THEN {[pd EXCEPT !.payment_terms[f] = VAL] :
              f \in {g \in {"payment_terms", "payment_schedule", "banking_details"} :
                        pd.payment_terms[g] # VAL}}
     ELSE {})
    \cup
    (IF pd.sla.tag = DICT
     THEN {[pd EXCEPT !.sla[f] = VAL] :
              f \in {g \in {"support_terms", "maintenance_terms"} : pd.sla[g] # VAL}}
     ELSE {})
    \cup
    (IF pd.account_info.tag = DICT
     THEN {[pd EXCEPT !.account_info[f] = VAL] :
              f \in {g \in {"contact_email", "contact_phone", "technical_support_contact"} :
                        pd.account_info[g] # VAL}}
     ELSE {})

\* C25: no category score and no overall score goes down when one absent field of
\* the input becomes present, or a line item or a party is added.
C25_ScoresMonotone ==
    (calc_calls > 0 /\ ~calc_ret.error) =>
        \A pd \in MoreData(parsed_data) :
            LET more == CalcReturn(pd, weights)
            IN  ~more.error =>
                   /\ more.score >= calc_ret.score
                   /\ \A i \in DOMAIN Components :
                         ScoresOf(pd)[Components[i]] >= scores[Components[i]]

(***************************************************************************)
(* The score of an empty extraction (checked under SpecExtract)            *)
(***************************************************************************)
\* analyze_contract gave the empty analysis, or nothing, for every chunk
NothingExtracted ==
    /\ chunk_outcomes # <<>>
    /\ \A i \in DOMAIN chunk_outcomes : ChunkFailed(chunk_outcomes[i])

\* C27: when nothing was extracted, the ContractData that
\* _convert_to_contract_data builds is scored 0.0 by calculate_score.
C27_EmptyConversionScoresZero ==
    (extract_pc = "returned" /\ ~extract_ret.fallback /\ NothingExtracted /\ calc_calls > 0) =>
        calc_ret.score = 0

(***************************************************************************)
(* The length of the chunks (checked under SpecChunk)                      *)
(***************************************************************************)
\* C26: every chunk _split_text_into_chunks has built is at most chunk_size
\* characters long.
C26_ChunkWithinBudget ==
    \A k \in DOMAIN chunks : chunks[k].hi - chunks[k].lo <= chunk_size

(***************************************************************************)
(* The background task and a concurrent delete (checked under SpecApi)     *)
(***************************************************************************)
\* C28: no exception leaves process_contract: whatever step raises, the except
\* branch records failed or a retry, and the task never ends with the exception
\* unhandled.
C28_NoExceptionEscapes == task_pc # "escaped"

\* C29: while a process_contract task exists for the contract, no step brings a
\* record into being: a record that delete_contract removed stays absent, whatever
\* the task does afterwards.
C29_DeletedStaysAbsent ==
    [][(~db.exists /\ task_pc # "none") => ~db'.exists]_vars

\* delete_contract has removed the record and the task is about to write the
\* completion update
C29_Witness ==
    /\ ~db.exists
    /\ http.op = "delete_contract"
    /\ http.status_code = 200
    /\ task_pc = "complete"

(***************************************************************************)
(* get_score_breakdown against calculate_score (checked under Spec)        *)
(***************************************************************************)
\* C30: on an input on which calculate_score did not fail, get_score_breakdown
\* returns calculate_score's score as overall_score, its gaps as gaps, and the
\* engine's weight as the weight of every component.
C30_BreakdownAgrees ==
    (calc_calls > 0 /\ ~calc_ret.error /\ bd_calls > 0) =>
        /\ bd_ret.returned
        /\ bd_ret.overall_score = calc_ret.score
        /\ bd_ret.gaps = calc_ret.gaps
        /\ \A i \in DOMAIN Components :
              bd_ret.component_scores[Components[i]].weight = weights[Components[i]]

\* both were called on an input with a non-zero score and with gaps
C30_Witness ==
    /\ calc_calls > 0
    /\ bd_calls > 0
    /\ ~calc_ret.error
    /\ bd_ret.overall_score = calc_ret.score
    /\ calc_ret.score > 0
    /\ Len(bd_ret.gaps) > 0

====
